---- MODULE Spec2Model ----
(***************************************************************************)
(* Model of the airline flight-operations MCP server                       *)
(* (src/flight-ops-server.js).  Each tools/call handler is one action: it  *)
(* reads the request arguments, issues its store calls (each of which may  *)
(* resolve or reject), post-filters / sorts in memory and leaves a result  *)
(* envelope in `response`.  The DynamoDB tables are the variables          *)
(* flightsTable, bookingsTable and passengersTable; storeLog is the list   *)
(* of store commands the last handled request sent, each with its outcome. *)
(* The customer-service server (src/test-mcp.js, the script that starts at *)
(* line 403) shares the store: it reads passengersTable and writes         *)
(* delayNotificationsTable and supportSessionsTable, taking record ids     *)
(* from the clock `now`; `server` is the server that answered last.        *)
(***************************************************************************)
EXTENDS Integers, Sequences, FiniteSets, TLC

VARIABLES flightsTable, bookingsTable, passengersTable, request, response, storeLog,
          server, delayNotificationsTable, supportSessionsTable, now,
          process, handlers

vars == <<flightsTable, bookingsTable, passengersTable, request, response, storeLog,
          server, delayNotificationsTable, supportSessionsTable, now,
          process, handlers>>

(***************************************************************************)
(* Bounds of the model.                                                    *)
(***************************************************************************)
MaxDelayFlights == 1
MaxMatchingFlights == 6
MaxMixedFlights == 3
MaxBookings == 3
MaxCustomerPassengers == 2
MaxClock == 1
MaxRequests == 2

(***************************************************************************)
(* Table names and region compiled into the server.                        *)
(***************************************************************************)
FLIGHTS_TABLE == "Flights"
PASSENGERS_TABLE == "Passengers"
BOOKINGS_TABLE == "Bookings"
\* the notifications written to the table of flights
DelayNotificationsInFlights == "Flights"

DELAY_NOTIFICATIONS_TABLE == "DelayNotifications"
REBOOKING_OPTIONS_TABLE == "RebookingOptions"
REGION == "us-east-1"

(***************************************************************************)
(* Strings whose letter case matters (flight statuses) are sequences of    *)
(* one-character strings, so that String.prototype.toLowerCase is computed *)
(* character by character.                                                 *)
(***************************************************************************)
UpperChars == <<"A","B","C","D","E","F","G","H","I","J","K","L","M",
                "N","O","P","Q","R","S","T","U","V","W","X","Y","Z">>
LowerChars == <<"a","b","c","d","e","f","g","h","i","j","k","l","m",
                "n","o","p","q","r","s","t","u","v","w","x","y","z">>

\* the lower-case letter of every upper-case letter
LowerOf ==
  [c \in {UpperChars[i] : i \in DOMAIN UpperChars} |->
     LowerChars[CHOOSE i \in DOMAIN UpperChars : UpperChars[i] = c]]

toLowerCaseChar(c) == IF c \in DOMAIN LowerOf THEN LowerOf[c] ELSE c

toLowerCase(s) == [i \in DOMAIN s |-> toLowerCaseChar(s[i])]

EmptyString == <<>>
delayed == <<"d","e","l","a","y","e","d">>
delayedUpper == <<"D","E","L","A","Y","E","D">>
delayedMixed == <<"D","e","l","a","y","e","d">>
cancelled == <<"c","a","n","c","e","l","l","e","d">>
cancelledUpper == <<"C","A","N","C","E","L","L","E","D">>
cancelledMixed == <<"C","a","n","c","e","l","l","e","d">>
diverted == <<"d","i","v","e","r","t","e","d">>
divertedUpper == <<"D","I","V","E","R","T","E","D">>
onTime == <<"o","n","_","t","i","m","e">>
onTimeUpper == <<"O","N","_","T","I","M","E">>
scheduled == <<"s","c","h","e","d","u","l","e","d">>
scheduledUpper == <<"S","C","H","E","D","U","L","E","D">>
scheduledMixed == <<"S","c","h","e","d","u","l","e","d">>

(***************************************************************************)
(* Items and argument objects are records whose DOMAIN is the set of       *)
(* attributes present; a missing attribute reads as JavaScript undefined.  *)
(***************************************************************************)
NoFields == [x \in {} |-> 0]

Has(obj, attr) == attr \in DOMAIN obj

\* args?.name || dflt for a string argument: undefined and "" are falsy
StrOrDefault(obj, attr, dflt) ==
  IF Has(obj, attr) /\ obj[attr] # "" THEN obj[attr] ELSE dflt

\* flight.DelayMinutes || 0
NumOrZero(obj, attr) == IF Has(obj, attr) THEN obj[attr] ELSE 0

(***************************************************************************)
(* DynamoDB filter expressions.  An expression is the sequence of its      *)
(* top-level conditions and connectives as written in the expression text  *)
(* (a parenthesised group or an IN list is one condition).  DynamoDB       *)
(* evaluates AND before OR, so the expression is the disjunction of the    *)
(* maximal AND-runs.                                                       *)
(***************************************************************************)
Condition(c, item, values) ==
  CASE c = "statusInDelaySet" ->
         Has(item, "Status") /\
         item.Status \in {values.delayed, values.delayedUpper, values.cancelled,
                          values.cancelledUpper, values.diverted, values.divertedUpper}
    [] c = "delayMinutesPositive" ->
         Has(item, "DelayMinutes") /\ item.DelayMinutes > values.minDelay
    [] c = "originIsAirport" ->
         Has(item, "Origin") /\ item.Origin = values.airport
    [] c = "originIsOrigin" ->
         Has(item, "Origin") /\ item.Origin = values.origin
    [] c = "destinationIsDestination" ->
         Has(item, "Destination") /\ item.Destination = values.destination
    [] c = "passengerIdIsId" ->
         Has(item, "PassengerId") /\ item.PassengerId = values.id
    [] c = "statusIsOnTimeOrScheduled" ->
         Has(item, "Status") /\
         (item.Status = values.onTime \/ item.Status = values.onTimeUpper \/
          item.Status = values.scheduled \/ item.Status = values.scheduledUpper)

EvalFilter(expr, item, values) ==
  LET orPos == {i \in DOMAIN expr : expr[i] = "OR"}
      starts == {1} \cup {i + 1 : i \in orPos}
      endOf(s) == IF \E i \in orPos : i > s
                  THEN (CHOOSE i \in orPos : i > s /\ \A j \in orPos : j > s => i <= j) - 1
                  ELSE Len(expr)
  IN \E s \in starts :
        \A j \in s..endOf(s) : expr[j] = "AND" \/ Condition(expr[j], item, values)

\* ScanCommand with a FilterExpression: the items of the table, in table
\* order, that satisfy the expression
Scan(table, expr, values) ==
  LET keep(item) == EvalFilter(expr, item, values) IN SelectSeq(table, keep)

(***************************************************************************)
(* Result envelopes.  A text payload is a record: the template that was    *)
(* rendered (tmpl) and the values interpolated into it.                    *)
(***************************************************************************)
TextResult(t) == [content |-> <<[type |-> "text", text |-> t]>>]

\* the two servers (the name each passes to new Server)
FlightOpsServer == "airline-flight-ops"
CustomerServiceServer == "airline-customer-service"
NoServer == ""

\* the state of a server's Node process: main() has not settled yet, the
\* transport is connected, or the process has ended with an exit code
Starting == [state |-> "starting"]
Running == [state |-> "running"]
Exited(code) == [state |-> "exited", exitCode |-> code]

Servers == {FlightOpsServer, CustomerServiceServer}

\* both servers are connected and no handler is in flight
ServersIdle ==
  /\ process = [s \in Servers |-> Running]
  /\ handlers = <<>>

\* before any request: no server has answered, nothing was written to
\* DelayNotifications or CustomerSupportSessions, the clock (milliseconds,
\* what Date.now() returns) stands at 0
NoCustomerService ==
  /\ server = NoServer
  /\ delayNotificationsTable = <<>>
  /\ supportSessionsTable = <<>>
  /\ now = 0
  /\ ServersIdle

NoRequest == [name |-> "", arguments |-> NoFields]
NoResponse == [content |-> <<>>]

\* Outcome of one docClient.send: it resolves, or rejects with an Error
Resolved == [rejected |-> FALSE, name |-> "", message |-> ""]
ResourceNotFound ==
  [rejected |-> TRUE, name |-> "ResourceNotFoundException",
   message |-> "Requested resource not found"]
CredentialsError ==
  [rejected |-> TRUE, name |-> "CredentialsProviderError",
   message |-> "Could not load credentials from any providers"]

ScanCommand(table) == [command |-> "Scan", TableName |-> table]
QueryCommand(table, index) == [command |-> "Query", TableName |-> table, IndexName |-> index]
GetCommand(table, key) == [command |-> "Get", TableName |-> table, Key |-> key]

\* one docClient.send as the log keeps it: the command and how it settled
Sent(command, outcome) == command @@ outcome

\* the attributes of obj named by the values of fieldMap, under its keys;
\* JSON.stringify drops the keys whose value is undefined
Project(obj, fieldMap) ==
  [k \in {k \in DOMAIN fieldMap : Has(obj, fieldMap[k])} |-> obj[fieldMap[k]]]

(***************************************************************************)
(* check_flight_delays                                                     *)
(***************************************************************************)
isDelayedStatus(status) ==
  IF status = EmptyString THEN FALSE
  ELSE LET statusLower == toLowerCase(status)
       IN statusLower = delayed \/ statusLower = cancelled \/ statusLower = diverted

\* flight.Status read in JavaScript: undefined is falsy like ""
StatusOf(flight) == IF Has(flight, "Status") THEN flight.Status ELSE EmptyString

DelayScanValues(airport) ==
  LET values == [delayed |-> delayed, delayedUpper |-> delayedUpper,
                 cancelled |-> cancelled, cancelledUpper |-> cancelledUpper,
                 diverted |-> diverted, divertedUpper |-> divertedUpper,
                 minDelay |-> 0]
  IN IF airport # "all" THEN values @@ [airport |-> airport] ELSE values

DelayScanExpression(airport) ==
  LET expr == <<"statusInDelaySet", "OR", "delayMinutesPositive">>
  IN IF airport # "all" THEN expr \o <<"AND", "originIsAirport">> ELSE expr

\* SeverityFilter with the major bucket starting at 60 instead of above 60
SeverityFilterMajorFrom60(flight, severity) ==
  LET delayMinutes == NumOrZero(flight, "DelayMinutes")
      hasDelay == delayMinutes > 0 \/ isDelayedStatus(StatusOf(flight))
      statusLower == toLowerCase(StatusOf(flight))
  IN IF ~hasDelay THEN FALSE
     ELSE CASE severity = "minor" -> delayMinutes >= 30 /\ delayMinutes <= 60
            [] severity = "major" -> delayMinutes >= 60 /\ delayMinutes <= 120
            [] severity = "severe" ->
                 delayMinutes > 120 \/ statusLower = cancelled \/ statusLower = diverted
            [] OTHER -> TRUE

SeverityFilter(flight, severity) ==
  LET delayMinutes == NumOrZero(flight, "DelayMinutes")
      hasDelay == delayMinutes > 0 \/ isDelayedStatus(StatusOf(flight))
      statusLower == toLowerCase(StatusOf(flight))
  IN IF ~hasDelay THEN FALSE
     ELSE CASE severity = "minor" -> delayMinutes >= 30 /\ delayMinutes <= 60
            [] severity = "major" -> delayMinutes > 60 /\ delayMinutes <= 120
            [] severity = "severe" ->
                 delayMinutes > 120 \/ statusLower = cancelled \/ statusLower = diverted
            [] OTHER -> TRUE

AllSeverityFilter(flight) ==
  LET delayMinutes == NumOrZero(flight, "DelayMinutes")
  IN delayMinutes > 0 \/ isDelayedStatus(StatusOf(flight))

\* the flights the handler reports once its scan has resolved
DelayedFlights(table, airport, severity) ==
  LET items == Scan(table, DelayScanExpression(airport), DelayScanValues(airport))
      bySeverity(flight) == SeverityFilter(flight, severity)
  IN IF severity # "all" THEN SelectSeq(items, bySeverity)
     ELSE SelectSeq(items, AllSeverityFilter)

DelayProjection ==
  [flightNumber |-> "FlightNumber", origin |-> "Origin", destination |-> "Destination",
   status |-> "Status", delayMinutes |-> "DelayMinutes", reason |-> "DelayReason",
   scheduledDeparture |-> "ScheduledDepartureTime",
   estimatedDeparture |-> "EstimatedDepartureTime"]

\* what the handler returns once its scan has settled
DelayCheckResult(args, outcome, table) ==
  LET airport == StrOrDefault(args, "airport", "FRA")
      severity == StrOrDefault(args, "severity", "all")
      flights == DelayedFlights(table, airport, severity)
  IN IF outcome.rejected
     THEN TextResult([tmpl |-> "DatabaseError",
                      message |-> outcome.message,
                      table |-> FLIGHTS_TABLE])
     ELSE IF Len(flights) = 0
     THEN TextResult([tmpl |-> "NoDelaysFound", airport |-> airport])
     ELSE TextResult(
            [tmpl |-> "FoundDelays", count |-> Len(flights),
             airport |-> airport,
             summary |->
               [total_delays |-> Len(flights),
                affected_passengers |-> Len(flights) * 150,
                flights |-> [i \in 1..Len(flights) |->
                               Project(flights[i], DelayProjection)]]])

check_flight_delays(args, outcome) ==
       /\ request' = [name |-> "check_flight_delays", arguments |-> args]
       /\ storeLog' = <<Sent(ScanCommand(FLIGHTS_TABLE), outcome)>>
       /\ \E result \in {DelayCheckResult(args, outcome, flightsTable)} :
            response' = result
       /\ server' = FlightOpsServer
       /\ UNCHANGED <<process, handlers, flightsTable, bookingsTable, passengersTable,
                      delayNotificationsTable, supportSessionsTable, now>>

(***************************************************************************)
(* Store contents and requests of the delay-lookup specification.          *)
(***************************************************************************)
BoundedSeq(S, n) == UNION {[1..k -> S] : k \in 0..n}

Attr(name, value) == name :> value

DelayStatusValues == {onTime, delayed, delayedMixed, cancelledUpper}
DelayMinutesValues == {0, 30, 60, 61, 120, 121}
Airports == {"FRA", "MUC"}

DelayFlightItems ==
  { b @@ s @@ d :
      b \in {[FlightNumber |-> "LH441", Origin |-> o, Destination |-> "JFK"] : o \in Airports},
      s \in {Attr("Status", v) : v \in DelayStatusValues},
      d \in {NoFields} \cup {Attr("DelayMinutes", v) : v \in DelayMinutesValues} }

DelayArgs ==
  { a @@ s :
      a \in {NoFields} \cup {Attr("airport", v) : v \in {"MUC", "all"}},
      s \in {NoFields} \cup {Attr("severity", v) : v \in {"minor", "major", "severe"}} }

InitDelays ==
  /\ flightsTable \in BoundedSeq(DelayFlightItems, MaxDelayFlights)
  /\ bookingsTable = <<>>
  /\ passengersTable = <<>>
  /\ request = NoRequest
  /\ response = NoResponse
  /\ storeLog = <<>>
  /\ NoCustomerService

\* the scan resolves for every argument object and rejects for one of them
DelayCalls ==
  (DelayArgs \X {Resolved}) \cup {<<[airport |-> "MUC"], ResourceNotFound>>}

NextDelays == \E call \in DelayCalls : check_flight_delays(call[1], call[2])

SpecDelays == InitDelays /\ [][NextDelays]_vars

(***************************************************************************)
(* Array.prototype.sort with a comparison function.  cmp[i][j] is the      *)
(* value the function returns for the elements s[i] and s[j].  When the    *)
(* function is a consistent comparison function for the elements of the    *)
(* array (ECMAScript 23.1.3.30) the result is the stable sort; otherwise   *)
(* the order is implementation-defined: any permutation of the elements.   *)
(***************************************************************************)
ConsistentOn(cmp) ==
  \A a \in DOMAIN cmp : \A b \in DOMAIN cmp :
     /\ cmp[a][a] = 0
     /\ (cmp[a][b] = 0 => cmp[b][a] = 0)
     /\ (cmp[a][b] < 0 <=> cmp[b][a] > 0)
     /\ \A c \in DOMAIN cmp :
          /\ (cmp[a][b] = 0 /\ cmp[b][c] = 0 => cmp[a][c] = 0)
          /\ (cmp[a][b] < 0 /\ cmp[b][c] < 0 => cmp[a][c] < 0)
          /\ (cmp[a][b] > 0 /\ cmp[b][c] > 0 => cmp[a][c] > 0)

\* the stable sort: an element goes after the elements that compare smaller
\* and after the equal ones that precede it in s
StableSort(s, cmp) ==
  LET position(i) ==
        1 + Cardinality({j \in DOMAIN s : cmp[j][i] < 0})
          + Cardinality({j \in DOMAIN s : j < i /\ cmp[j][i] = 0})
  IN [p \in DOMAIN s |-> s[CHOOSE i \in DOMAIN s : position(i) = p]]

Rearrangements(s) ==
  LET n == Len(s)
  IN {[i \in 1..n |-> s[p[i]]] :
        p \in {q \in [1..n -> 1..n] : \A i \in 1..n : \A j \in 1..n : q[i] = q[j] => i = j}}

SortOutcomes(s, cmp) ==
  IF ConsistentOn(cmp) THEN {StableSort(s, cmp)} ELSE Rearrangements(s)

\* JavaScript undefined and null as array elements
Undefined == [jsUndefined |-> TRUE]
Null == [jsNull |-> TRUE]

(***************************************************************************)
(* find_alternative_flights                                                *)
(***************************************************************************)
MAX_ALTERNATIVES == 5

\* a string argument is truthy when it is present and not ""
Truthy(obj, attr) == Has(obj, attr) /\ obj[attr] # ""

\* String(value) of an argument: a missing one reads "undefined"
StringOf(obj, attr) == IF Has(obj, attr) THEN obj[attr] ELSE "undefined"

\* the validation testing the origin only
OnlyOriginMissing(args) == ~Truthy(args, "origin")

\* !origin || !destination
OriginOrDestinationMissing(args) == ~Truthy(args, "origin") \/ ~Truthy(args, "destination")

AlternativesScanExpression ==
  <<"originIsOrigin", "AND", "destinationIsDestination", "AND", "statusIsOnTimeOrScheduled">>

AlternativesScanValues(args) ==
  [origin |-> StringOf(args, "origin"), destination |-> StringOf(args, "destination"),
   onTime |-> onTime, onTimeUpper |-> onTimeUpper,
   scheduled |-> scheduled, scheduledUpper |-> scheduledUpper]

\* new Date(a.ScheduledDepartureTime) - new Date(b.ScheduledDepartureTime);
\* ScheduledDepartureTime is held as the time value its text parses to, a
\* missing one makes an invalid Date, the difference is then NaN, and the
\* sort reads a NaN comparison result as +0
CompareDeparture(a, b) ==
  IF Has(a, "ScheduledDepartureTime") /\ Has(b, "ScheduledDepartureTime")
  THEN a.ScheduledDepartureTime - b.ScheduledDepartureTime
  ELSE 0

\* flights.sort((a, b) => ...)
SortByDeparture(flights) ==
  UNION {SortOutcomes(flights, cmp) :
           cmp \in {[i \in DOMAIN flights |->
                       [j \in DOMAIN flights |-> CompareDeparture(flights[i], flights[j])]]}}

\* flights.slice(0, 5)
Slice(s, n) == SubSeq(s, 1, IF Len(s) < n THEN Len(s) ELSE n)

getRecommendationReason(passenger_tier) ==
  CASE passenger_tier = "senator" -> "Premium service prioritized for Senator status"
    [] passenger_tier = "frequent_traveler" ->
         "Earliest available departure for frequent traveler"
    [] OTHER -> "Available alternative flight"

AlternativeProjection ==
  [flightNumber |-> "FlightNumber", origin |-> "Origin", destination |-> "Destination",
   scheduledDeparture |-> "ScheduledDepartureTime",
   scheduledArrival |-> "ScheduledArrivalTime", aircraft |-> "AircraftType",
   status |-> "Status", availableSeats |-> "AvailableSeats"]

\* what the handler may return once its scan has settled: one result for
\* each order the sort may leave the flights in
AlternativeResults(args, outcome, table) ==
  LET passenger_tier == IF Has(args, "passenger_tier") THEN args.passenger_tier ELSE "regular"
  IN IF outcome.rejected
     THEN {TextResult([tmpl |-> "Error", message |-> outcome.message])}
     ELSE UNION {
       {TextResult(
          [tmpl |-> "FoundAlternatives", count |-> Len(flights),
           passenger_tier |-> passenger_tier,
           alternatives |->
             [passenger_tier |-> passenger_tier,
              origin |-> StringOf(args, "origin"),
              destination |-> StringOf(args, "destination"),
              options |->
                [i \in 1..Len(flights) |->
                   Project(flights[i], AlternativeProjection) @@
                   [recommendation_reason |->
                      getRecommendationReason(passenger_tier)]]]]) :
        flights \in {Slice(sorted, MAX_ALTERNATIVES) : sorted \in SortByDeparture(items)}} :
       items \in {Scan(table, AlternativesScanExpression, AlternativesScanValues(args))}}

find_alternative_flights(args, outcome) ==
     /\ request' = [name |-> "find_alternative_flights", arguments |-> args]
     /\ IF OriginOrDestinationMissing(args)
        THEN /\ storeLog' = <<>>
             /\ response' = TextResult([tmpl |-> "OriginAndDestinationRequired"])
        ELSE /\ storeLog' = <<Sent(ScanCommand(FLIGHTS_TABLE), outcome)>>
             /\ response' \in AlternativeResults(args, outcome, flightsTable)
     /\ server' = FlightOpsServer
     /\ UNCHANGED <<process, handlers, flightsTable, bookingsTable, passengersTable,
                    delayNotificationsTable, supportSessionsTable, now>>

(***************************************************************************)
(* Store contents and requests of the alternative-flight specification:    *)
(* long tables of matching flights, and short tables that also hold        *)
(* flights without a departure time or failing one of the conditions.      *)
(***************************************************************************)
AltFlight(number, origin, destination, status) ==
  [FlightNumber |-> number, Origin |-> origin, Destination |-> destination,
   Status |-> status]

MatchingFlightItems ==
  { AltFlight("LH401", "FRA", "JFK", onTime) @@ [ScheduledDepartureTime |-> 1],
    AltFlight("LH403", "FRA", "JFK", scheduledUpper) @@ [ScheduledDepartureTime |-> 2] }

OtherFlightItems ==
  { AltFlight("LH407", "FRA", "JFK", onTime),
    AltFlight("LH409", "FRA", "JFK", scheduledMixed) @@ [ScheduledDepartureTime |-> 0],
    AltFlight("LH411", "MUC", "JFK", onTime) @@ [ScheduledDepartureTime |-> 0],
    AltFlight("LH413", "FRA", "LHR", scheduled) @@ [ScheduledDepartureTime |-> 0],
    AltFlight("LH415", "FRA", "JFK", delayed) @@ [ScheduledDepartureTime |-> 0] }

AltArgs ==
  { o @@ d @@ t :
      o \in {NoFields, Attr("origin", ""), Attr("origin", "FRA")},
      d \in {NoFields, Attr("destination", "JFK")},
      t \in {NoFields} }
  \cup {[origin |-> "FRA", destination |-> "JFK", passenger_tier |-> "senator"]}

\* the scan resolves for every argument object and rejects for one of them
AltCalls ==
  (AltArgs \X {Resolved}) \cup
  {<<[origin |-> "FRA", destination |-> "JFK"], CredentialsError>>}

InitAlternatives ==
  /\ flightsTable \in BoundedSeq(MatchingFlightItems, MaxMatchingFlights) \cup
                      BoundedSeq(MatchingFlightItems \cup OtherFlightItems, MaxMixedFlights)
  /\ bookingsTable = <<>>
  /\ passengersTable = <<>>
  /\ request = NoRequest
  /\ response = NoResponse
  /\ storeLog = <<>>
  /\ NoCustomerService

NextAlternatives == \E call \in AltCalls : find_alternative_flights(call[1], call[2])

SpecAlternatives == InitAlternatives /\ [][NextAlternatives]_vars

(***************************************************************************)
(* get_affected_passengers                                                 *)
(***************************************************************************)
\* QueryCommand on FlightBookingsIndex with FlightNumber = :flightNumber
QueryBookings(table, flightNumber) ==
  LET onFlight(booking) == Has(booking, "FlightNumber") /\ booking.FlightNumber = flightNumber
  IN SelectSeq(table, onFlight)

PassengerKey(booking) ==
  [PassengerId |-> booking.PassengerId, BookingReference |-> booking.BookingReference]

\* GetCommand on Passengers: the Item with that key, undefined when there is none
GetPassenger(table, key) ==
  LET hasKey(item) == item.PassengerId = key.PassengerId /\
                      item.BookingReference = key.BookingReference
      found == SelectSeq(table, hasKey)
  IN IF Len(found) = 0 THEN Undefined ELSE found[1]

\* what a rejected promise settles with
Rejection(outcome) == [jsRejected |-> TRUE, message |-> outcome.message]
IsRejection(value) == Has(value, "jsRejected")

\* the lookup letting the rejection of its Get escape
PassengerLookupUncaught(table, booking, outcome) ==
  IF outcome.rejected THEN Rejection(outcome) ELSE GetPassenger(table, PassengerKey(booking))

\* the async callback of bookings.map: the passenger Item, null when the Get rejects
PassengerLookup(table, booking, outcome) ==
  IF outcome.rejected THEN Null ELSE GetPassenger(table, PassengerKey(booking))

\* tierOrder[p.FrequentFlyerTier] || 0
TierRank(passenger) ==
  IF ~Has(passenger, "FrequentFlyerTier") THEN 0
  ELSE CASE passenger.FrequentFlyerTier = "senator" -> 3
         [] passenger.FrequentFlyerTier = "frequent_traveler" -> 2
         [] passenger.FrequentFlyerTier = "regular" -> 1
         [] OTHER -> 0

\* the comparison with its operands swapped: lowest rank first
CompareTierAscending(a, b) == TierRank(a) - TierRank(b)

CompareTier(a, b) == TierRank(b) - TierRank(a)

\* passengers.sort((a, b) => ...): the undefined elements go last without
\* being compared, the others are sorted by the comparison function
SortByTier(passengers) ==
  LET isDefined(x) == x # Undefined
      isUndefined(x) == x = Undefined
      comparisons(defined) ==
        [i \in DOMAIN defined |->
           [j \in DOMAIN defined |-> CompareTier(defined[i], defined[j])]]
  IN UNION {{sorted \o SelectSeq(passengers, isUndefined) :
               sorted \in UNION {SortOutcomes(defined, cmp) : cmp \in {comparisons(defined)}}} :
            defined \in {SelectSeq(passengers, isDefined)}}

\* JSON.stringify of an array writes null for an undefined element
JsonArray(s) == [i \in DOMAIN s |-> IF s[i] = Undefined THEN Null ELSE s[i]]

\* what the handler may return once every lookup has settled: the values
\* that are not null, sorted by tier
AffectedPassengersResults(args, settled) ==
  LET notNull(p) == p # Null
  IN UNION {
       {TextResult([tmpl |-> "FoundPassengers", count |-> Len(passengers),
                    flight_number |-> args.flight_number,
                    passengers |-> JsonArray(passengers)]) :
        passengers \in SortByTier(found)} :
       found \in {SelectSeq(settled, notNull)}}

get_affected_passengers(args, queryOutcome) ==
  /\ request' = [name |-> "get_affected_passengers", arguments |-> args]
  /\ IF ~Truthy(args, "flight_number")
     THEN /\ storeLog' = <<>>
          /\ response' = TextResult([tmpl |-> "FlightNumberRequired"])
     ELSE \E query \in {Sent(QueryCommand(BOOKINGS_TABLE, "FlightBookingsIndex"), queryOutcome)} :
          IF queryOutcome.rejected
          THEN /\ storeLog' = <<query>>
               /\ response' = TextResult([tmpl |-> "Error", message |-> queryOutcome.message])
          ELSE \E bookings \in {QueryBookings(bookingsTable, args.flight_number)} :
               \E getOutcomes \in [DOMAIN bookings -> {Resolved, ResourceNotFound}] :
               \E settled \in {[i \in DOMAIN bookings |->
                                  PassengerLookup(passengersTable, bookings[i], getOutcomes[i])]} :
                 /\ storeLog' = <<query>> \o
                                [i \in DOMAIN bookings |->
                                   Sent(GetCommand(PASSENGERS_TABLE, PassengerKey(bookings[i])),
                                        getOutcomes[i])]
                 /\ IF \E i \in DOMAIN settled : IsRejection(settled[i])
                    THEN \* Promise.all rejects with the first rejection
                         LET first == CHOOSE i \in DOMAIN settled :
                                        /\ IsRejection(settled[i])
                                        /\ \A j \in DOMAIN settled : IsRejection(settled[j]) => i <= j
                         IN response' = TextResult([tmpl |-> "Error",
                                                    message |-> settled[first].message])
                    ELSE response' \in AffectedPassengersResults(args, settled)
  /\ server' = FlightOpsServer
  /\ UNCHANGED <<process, handlers, flightsTable, bookingsTable, passengersTable,
                 delayNotificationsTable, supportSessionsTable, now>>

(***************************************************************************)
(* test_connection                                                         *)
(***************************************************************************)
TestedTables ==
  <<FLIGHTS_TABLE, PASSENGERS_TABLE, BOOKINGS_TABLE, DELAY_NOTIFICATIONS_TABLE,
    REBOOKING_OPTIONS_TABLE>>

\* the failure text naming the tables of the previous schema version only
ConnectionFailureTextTwoTables(error) ==
  [tmpl |-> "ConnectionTestFailed", message |-> error.message, name |-> error.name,
   tables |-> <<FLIGHTS_TABLE, PASSENGERS_TABLE>>, region |-> REGION]

ConnectionFailureText(error) ==
  [tmpl |-> "ConnectionTestFailed", message |-> error.message, name |-> error.name,
   tables |-> <<FLIGHTS_TABLE, PASSENGERS_TABLE, BOOKINGS_TABLE,
                DELAY_NOTIFICATIONS_TABLE, REBOOKING_OPTIONS_TABLE>>,
   region |-> REGION]

\* ScanCommand with Limit 1: at most one item is read and returned
SampleSize(table) == IF Len(table) = 0 THEN 0 ELSE 1

\* The scans run one after the other; outcomes[i] is how the i-th settles and
\* the first rejection ends the try block.  samples gives the number of
\* items a resolved scan of DelayNotifications and of RebookingOptions reads.
ConnectionTestResult(outcomes, samples, flights, passengers, bookings) ==
  LET rejections == {i \in DOMAIN outcomes : outcomes[i].rejected}
      firstRejection == CHOOSE i \in rejections : \A j \in rejections : i <= j
  IN IF rejections # {}
     THEN TextResult(ConnectionFailureText(outcomes[firstRejection]))
     ELSE TextResult(
            [tmpl |-> "ConnectionTestResults",
             tables |-> TestedTables,
             sampleRecords |-> <<SampleSize(flights), SampleSize(passengers),
                                 SampleSize(bookings), samples[1], samples[2]>>,
             totalScanned |-> <<SampleSize(flights), SampleSize(passengers),
                                SampleSize(bookings), samples[1], samples[2]>>,
             region |-> REGION])

test_connection(outcomes, samples) ==
  LET rejections == {i \in DOMAIN outcomes : outcomes[i].rejected}
      firstRejection == CHOOSE i \in rejections : \A j \in rejections : i <= j
      sent == IF rejections = {} THEN Len(TestedTables) ELSE firstRejection
  IN /\ request' = [name |-> "test_connection", arguments |-> NoFields]
     /\ storeLog' = [i \in 1..sent |-> Sent(ScanCommand(TestedTables[i]), outcomes[i])]
     /\ response' = ConnectionTestResult(outcomes, samples, flightsTable,
                                         passengersTable, bookingsTable)
     /\ server' = FlightOpsServer
     /\ UNCHANGED <<process, handlers, flightsTable, bookingsTable, passengersTable,
                    delayNotificationsTable, supportSessionsTable, now>>

(***************************************************************************)
(* Store contents and requests of the passenger specification: one booking *)
(* on another flight, then up to MaxBookings bookings on flight LH441, in  *)
(* the order the index returns them; each booked passenger has a record    *)
(* with some tier, a record without tier, or no record.                    *)
(***************************************************************************)
BookingRefs == <<"B1", "B2", "B3", "B4", "B5">>
PassengerIds == <<"P1", "P2", "P3", "P4", "P5">>

Booking(k, flight) ==
  [BookingReference |-> BookingRefs[k], PassengerId |-> PassengerIds[k],
   FlightNumber |-> flight]

TierValues == {"senator", "frequent_traveler", "regular", "gold"}

PassengerRecords(k) ==
  { [PassengerId |-> PassengerIds[k], BookingReference |-> BookingRefs[k]] @@ t :
      t \in {NoFields} \cup {Attr("FrequentFlyerTier", v) : v \in TierValues} }

\* the tables holding n bookings on LH441 after the booking on LH999
\* of each booked passenger, its record or none: the tables of n + 1 bookings
RECURSIVE PassengerTables(_)
PassengerTables(n) ==
  IF n = 0 THEN {<<[PassengerId |-> PassengerIds[1], BookingReference |-> BookingRefs[1],
                    FrequentFlyerTier |-> "regular"]>>}
  ELSE {t \o r : t \in PassengerTables(n - 1),
                 r \in {<<>>} \cup {<<p>> : p \in PassengerRecords(n + 1)}}

InitPassengers ==
  \E n \in 0..MaxBookings :
    /\ bookingsTable = <<Booking(1, "LH999")>> \o [i \in 1..n |-> Booking(i + 1, "LH441")]
    /\ passengersTable \in PassengerTables(n)
    /\ flightsTable = <<AltFlight("LH441", "FRA", "JFK", delayed)>>
    /\ request = NoRequest
    /\ response = NoResponse
    /\ storeLog = <<>>
    /\ NoCustomerService

\* the query resolves for every argument object and rejects for one of them
PassengerCalls ==
  ({NoFields, [flight_number |-> "LH441"]} \X {Resolved})
  \cup {<<[flight_number |-> "LH441"], CredentialsError>>}

NextPassengers == \E call \in PassengerCalls : get_affected_passengers(call[1], call[2])

SpecPassengers == InitPassengers /\ [][NextPassengers]_vars

(***************************************************************************)
(* Store contents and requests of the connectivity specification.          *)
(***************************************************************************)
InitConnection ==
  /\ flightsTable \in BoundedSeq(MatchingFlightItems, 1)
  /\ bookingsTable \in BoundedSeq({Booking(1, "LH441")}, 1)
  /\ passengersTable \in BoundedSeq(PassengerRecords(1), 1)
  /\ request = NoRequest
  /\ response = NoResponse
  /\ storeLog = <<>>
  /\ NoCustomerService

\* every scan resolves, or one scan rejects, or the last three do
ConnectionCalls ==
  ({[i \in 1..5 |-> Resolved]} \X {<<0, 0>>, <<1, 0>>, <<1, 1>>}) \cup
  ({[i \in 1..5 |-> IF i = k THEN e ELSE Resolved] :
      k \in 1..5, e \in {ResourceNotFound, CredentialsError}} \X {<<0, 0>>}) \cup
  {<<[i \in 1..5 |-> IF i >= 3 THEN CredentialsError ELSE Resolved], <<0, 0>>>>}

NextConnection == \E call \in ConnectionCalls : test_connection(call[1], call[2])

SpecConnection == InitConnection /\ [][NextConnection]_vars

(***************************************************************************)
(* Reading the last request and its result.                                *)
(***************************************************************************)
Answered(name) == request.name = name /\ Len(response.content) = 1

LastText == response.content[1].text

RequestedAirport == StrOrDefault(request.arguments, "airport", "FRA")
RequestedSeverity == StrOrDefault(request.arguments, "severity", "all")

DelayScanResolved == Answered("check_flight_delays") /\ LastText.tmpl # "DatabaseError"

\* the per-flight projections listed in the last check_flight_delays result
ReturnedDelays ==
  IF Answered("check_flight_delays") /\ LastText.tmpl = "FoundDelays"
  THEN {LastText.summary.flights[i] : i \in DOMAIN LastText.summary.flights}
  ELSE {}

TableFlights == {flightsTable[i] : i \in DOMAIN flightsTable}

AtRequestedAirport(flight) ==
  RequestedAirport = "all" \/ (Has(flight, "Origin") /\ flight.Origin = RequestedAirport)

StatusIsOneOf(flight, lowerCased) ==
  Has(flight, "Status") /\ toLowerCase(flight.Status) \in lowerCased

Buckets == {"minor", "major", "severe"}

\* the severity buckets as the tool description states them
InBucket(flight, severity) ==
  CASE severity = "minor" ->
         Has(flight, "DelayMinutes") /\ flight.DelayMinutes >= 30 /\ flight.DelayMinutes <= 60
    [] severity = "major" ->
         Has(flight, "DelayMinutes") /\ flight.DelayMinutes > 60 /\ flight.DelayMinutes <= 120
    [] severity = "severe" ->
         \/ Has(flight, "DelayMinutes") /\ flight.DelayMinutes > 120
         \/ StatusIsOneOf(flight, {cancelled, diverted})

(***************************************************************************)
(* C1: with an airport other than "all" (the default "FRA" included),      *)
(* check_flight_delays returns only flights whose Origin is that airport.  *)
(***************************************************************************)
C1_OnlyRequestedAirport ==
  (Answered("check_flight_delays") /\ RequestedAirport # "all") =>
     \A r \in ReturnedDelays : Has(r, "origin") /\ r.origin = RequestedAirport

(***************************************************************************)
(* C2: for severity minor, major or severe, check_flight_delays returns    *)
(* exactly the flights of the requested airport that are in that bucket.   *)
(***************************************************************************)
C2_ExactlyTheBucket ==
  (DelayScanResolved /\ RequestedSeverity \in Buckets) =>
     ReturnedDelays =
       {Project(f, DelayProjection) :
          f \in {g \in TableFlights : AtRequestedAirport(g) /\ InBucket(g, RequestedSeverity)}}

(***************************************************************************)
(* C3: the buckets are mutually exclusive: a flight returned for one of    *)
(* minor, major, severe is not returned, from the same store and for the   *)
(* same airport, for another of them.                                      *)
(***************************************************************************)
ReturnedFor(severity) ==
  LET flights == DelayedFlights(flightsTable, RequestedAirport, severity)
  IN {Project(flights[i], DelayProjection) : i \in DOMAIN flights}

C3_BucketsExclusive ==
  (DelayScanResolved /\ RequestedSeverity \in Buckets) =>
     \A r \in ReturnedDelays : \A other \in Buckets \ {RequestedSeverity} :
        r \notin ReturnedFor(other)

\* C3 as amended: minor and major are mutually exclusive, and a flight whose
\* status is neither cancelled nor diverted (in any letter case) is returned
\* for at most one of the three severities
C3_BucketsExclusiveUnlessCancelled ==
  (DelayScanResolved /\ RequestedSeverity \in Buckets) =>
     \A r \in ReturnedDelays : \A other \in Buckets \ {RequestedSeverity} :
        \/ r \notin ReturnedFor(other)
        \/ /\ {RequestedSeverity, other} # {"minor", "major"}
           /\ Has(r, "status") /\ toLowerCase(r.status) \in {cancelled, diverted}

C3_Witness ==
  /\ DelayScanResolved
  /\ RequestedSeverity = "minor"
  /\ \E r \in ReturnedDelays : r.delayMinutes = 60 /\ r.status = delayed

(***************************************************************************)
(* C4: with severity "all", a flight of the requested airport is returned  *)
(* if and only if its delay minutes are positive or its status is delayed, *)
(* cancelled or diverted in any letter case; a flight with status on_time  *)
(* and zero delay minutes is returned under no severity.                   *)
(***************************************************************************)
GenuineDelay(flight) ==
  \/ Has(flight, "DelayMinutes") /\ flight.DelayMinutes > 0
  \/ StatusIsOneOf(flight, {delayed, cancelled, diverted})

C4_AllReturnsGenuineDelays ==
  /\ (DelayScanResolved /\ RequestedSeverity = "all") =>
        \A f \in TableFlights :
           AtRequestedAirport(f) =>
             (Project(f, DelayProjection) \in ReturnedDelays <=> GenuineDelay(f))
  /\ \A r \in ReturnedDelays :
        ~(Has(r, "status") /\ r.status = onTime /\ Has(r, "delayMinutes") /\ r.delayMinutes = 0)

(***************************************************************************)
(* Reading the last find_alternative_flights result.                       *)
(***************************************************************************)
AlternativesFound ==
  Answered("find_alternative_flights") /\ LastText.tmpl = "FoundAlternatives"

ReturnedOptions == IF AlternativesFound THEN LastText.alternatives.options ELSE <<>>

\* the conditions of the search, with the status compared in any letter case
MatchesSearch(flight) ==
  /\ Has(flight, "Origin") /\ Has(request.arguments, "origin")
  /\ flight.Origin = request.arguments.origin
  /\ Has(flight, "Destination") /\ Has(request.arguments, "destination")
  /\ flight.Destination = request.arguments.destination
  /\ StatusIsOneOf(flight, {onTime, scheduled})

(***************************************************************************)
(* C5: find_alternative_flights returns at most 5 options, in              *)
(* non-decreasing order of scheduled departure time.                       *)
(***************************************************************************)
C5_AtMostFiveInDepartureOrder ==
  AlternativesFound =>
    /\ Len(ReturnedOptions) <= 5
    /\ \A i \in DOMAIN ReturnedOptions : \A j \in DOMAIN ReturnedOptions :
         (/\ i < j
          /\ Has(ReturnedOptions[i], "scheduledDeparture")
          /\ Has(ReturnedOptions[j], "scheduledDeparture"))
         => ReturnedOptions[i].scheduledDeparture <= ReturnedOptions[j].scheduledDeparture

(***************************************************************************)
(* C6: the options are the earliest-departing of the flights matching      *)
(* origin, destination and an on_time / scheduled status in any letter     *)
(* case: every option matches, and no matching flight that is left out     *)
(* departs strictly earlier than an option.                                *)
(***************************************************************************)
C6_EarliestMatchingFlights ==
  AlternativesFound =>
    LET options == {Project(ReturnedOptions[i], [k \in DOMAIN AlternativeProjection |-> k]) :
                      i \in DOMAIN ReturnedOptions}
        matching == {f \in TableFlights : MatchesSearch(f)}
    IN /\ options \subseteq {Project(f, AlternativeProjection) : f \in matching}
       /\ \A f \in matching :
            Project(f, AlternativeProjection) \notin options =>
              \A r \in options :
                 ~(/\ Has(f, "ScheduledDepartureTime") /\ Has(r, "scheduledDeparture")
                   /\ f.ScheduledDepartureTime < r.scheduledDeparture)

(***************************************************************************)
(* C7: with origin or destination missing or empty, find_alternative_      *)
(* flights returns the error text and sends no store command.              *)
(***************************************************************************)
C7_MissingArgumentShortCircuits ==
  (/\ Answered("find_alternative_flights")
   /\ \/ ~Has(request.arguments, "origin") \/ ~Has(request.arguments, "destination")
      \/ request.arguments.origin = "" \/ request.arguments.destination = "")
  => (LastText.tmpl = "OriginAndDestinationRequired" /\ storeLog = <<>>)

C7_Witness ==
  /\ Answered("find_alternative_flights")
  /\ Has(request.arguments, "origin") /\ request.arguments.origin = "FRA"
  /\ ~Has(request.arguments, "destination")
  /\ LastText.tmpl = "OriginAndDestinationRequired"
  /\ Len(flightsTable) > 0

(***************************************************************************)
(* Reading the last get_affected_passengers result.                        *)
(***************************************************************************)
PassengersFound ==
  Answered("get_affected_passengers") /\ LastText.tmpl = "FoundPassengers"

ReturnedPassengers == IF PassengersFound THEN LastText.passengers ELSE <<>>

\* the tier ranks as the specification states them
RankOfTier(passenger) ==
  IF ~Has(passenger, "FrequentFlyerTier") THEN 0
  ELSE IF passenger.FrequentFlyerTier = "senator" THEN 3
  ELSE IF passenger.FrequentFlyerTier = "frequent_traveler" THEN 2
  ELSE IF passenger.FrequentFlyerTier = "regular" THEN 1
  ELSE 0

\* where the booking of a passenger stands in the index
BookingPosition(passenger) ==
  CHOOSE i \in DOMAIN bookingsTable :
    /\ bookingsTable[i].PassengerId = passenger.PassengerId
    /\ bookingsTable[i].BookingReference = passenger.BookingReference

ResolvedGetKeys ==
  {storeLog[i].Key : i \in {k \in DOMAIN storeLog :
                              storeLog[k].command = "Get" /\ ~storeLog[k].rejected}}

C9_FailedLookupsDiscarded ==
  (/\ Answered("get_affected_passengers")
   /\ Len(storeLog) >= 1 /\ ~storeLog[1].rejected)
  => /\ LastText.tmpl = "FoundPassengers"
     /\ {ReturnedPassengers[i] : i \in DOMAIN ReturnedPassengers} \ {Null} =
        {p \in {passengersTable[i] : i \in DOMAIN passengersTable} :
           [PassengerId |-> p.PassengerId, BookingReference |-> p.BookingReference]
             \in ResolvedGetKeys}

C9_Witness ==
  /\ PassengersFound
  /\ \E i \in DOMAIN storeLog : storeLog[i].command = "Get" /\ storeLog[i].rejected
  /\ \E i \in DOMAIN ReturnedPassengers :
       ReturnedPassengers[i] # Null /\ ReturnedPassengers[i].PassengerId = "P3"
  /\ \E i \in DOMAIN passengersTable : passengersTable[i].PassengerId = "P2"
  /\ \A i \in DOMAIN ReturnedPassengers :
       ReturnedPassengers[i] = Null \/ ReturnedPassengers[i].PassengerId # "P2"

(***************************************************************************)
(* C10: test_connection always returns a text result; when one of its      *)
(* scans rejects, the text holds the error message, the names of the five  *)
(* tables it tests and the region.                                         *)
(***************************************************************************)
C10_ConnectionFailureReported ==
  Answered("test_connection") =>
    /\ response.content[1].type = "text"
    /\ \A i \in DOMAIN storeLog :
         storeLog[i].rejected =>
           /\ LastText.tmpl = "ConnectionTestFailed"
           /\ LastText.message = storeLog[i].message
           /\ {"Flights", "Passengers", "Bookings", "DelayNotifications", "RebookingOptions"}
                \subseteq {LastText.tables[k] : k \in DOMAIN LastText.tables}
           /\ {storeLog[k].TableName : k \in DOMAIN storeLog}
                \subseteq {LastText.tables[k] : k \in DOMAIN LastText.tables}
           /\ LastText.region = "us-east-1"

C10_Witness ==
  /\ Answered("test_connection")
  /\ Len(storeLog) = 3
  /\ storeLog[3].rejected /\ storeLog[3].TableName = "Bookings"
  /\ LastText.tmpl = "ConnectionTestFailed"

(***************************************************************************)
(* The customer-service server (src/test-mcp.js from line 403).  Every     *)
(* case of its tools/call handler is one try block whose catch renders     *)
(* `Error: ${error.message}`; a handler body therefore completes either by *)
(* returning an envelope or by throwing.                                   *)
(***************************************************************************)
CUSTOMER_SUPPORT_SESSIONS_TABLE == "CustomerSupportSessions"

Return(value) == [threw |-> FALSE, value |-> value]
Throw(error) == [threw |-> TRUE, error |-> error]

\* reading a property of args (or of a nested object) that is undefined
CannotReadProperty(prop) ==
  [rejected |-> TRUE, name |-> "TypeError",
   message |-> [cannotReadPropertyOfUndefined |-> prop]]

IsUndefined(value) == Has(value, "jsUndefined")

\* a catch clause that forgets the error's message
CatchAsGenericText(completion) ==
  IF completion.threw THEN Return(TextResult([tmpl |-> "Error"])) ELSE completion

\* a handler without its try block
Uncaught(completion) == completion

\* catch (error) { return { content: [{ type: "text", text: `Error: ${error.message}` }] } }
CatchAsErrorText(completion) ==
  IF completion.threw
  THEN Return(TextResult([tmpl |-> "Error", message |-> completion.error.message]))
  ELSE completion

\* what the request handler's promise settles to: the returned envelope, or
\* a rejection that the protocol layer reports as an error of the request
Settled(completion) ==
  IF completion.threw THEN [protocolError |-> completion.error] ELSE completion.value

PutCommand(table, item) == [command |-> "Put", TableName |-> table, Item |-> item]

(***************************************************************************)
(* generate_proactive_message                                              *)
(***************************************************************************)
\* a scan without the filter on the passenger id
ProactiveScanUnfiltered == <<>>

\* FilterExpression: "PassengerId = :id"
ProactiveScanExpression == <<"passengerIdIsId">>

ProactiveScanValues(args) == [id |-> StringOf(args, "passenger_id")]

\* the template keyed on the requested tone instead of the tier
TemplateByTone(tier, args) ==
  IF Has(args, "message_tone") /\ args.message_tone = "premium_service"
  THEN "Dear Valued Senator Member" ELSE "Hello"

\* if (tier === "senator") ... else ...
ProactiveTemplate(tier, args) ==
  IF tier = "senator" THEN "Dear Valued Senator Member" ELSE "Hello"

\* the rendered message: its template and the values interpolated into it
ProactiveMessage(tier, args) ==
  LET info == args.delay_info
      filled == [template |-> ProactiveTemplate(tier, args),
                 flight_number |-> StringOf(info, "flight_number"),
                 reason |-> StringOf(info, "reason"),
                 delay_minutes |-> StringOf(info, "delay_minutes")]
  IN IF filled.template = "Dear Valued Senator Member"
     THEN filled @@
          [options |-> IF Has(args, "alternatives")
                       THEN "Your priority rebooking options:"
                       ELSE "I'm currently securing the best alternatives for you."]
     ELSE filled

ProactiveMessageBody(args, outcome, table) ==
  IF IsUndefined(args) THEN Throw(CannotReadProperty("passenger_id"))
  ELSE IF outcome.rejected THEN Throw(outcome)
  ELSE LET passengers == Scan(table, ProactiveScanExpression, ProactiveScanValues(args))
       IN IF Len(passengers) = 0
          THEN Return(TextResult([tmpl |-> "PassengerNotFound",
                                  passenger_id |-> StringOf(args, "passenger_id")]))
          ELSE LET tier == StrOrDefault(passengers[1], "FrequentFlyerTier", "regular")
               IN IF ~Has(args, "delay_info")
                  THEN Throw(CannotReadProperty("flight_number"))
                  ELSE Return(TextResult(
                         [tmpl |-> "Json",
                          passenger_tier |-> tier,
                          message_type |-> "proactive_delay_notification",
                          message |-> ProactiveMessage(tier, args),
                          recommended_actions |->
                            <<"Present alternative flights",
                              "Offer compensation if applicable",
                              "Provide rebooking options">>]))

generate_proactive_message(args, outcome) ==
  /\ request' = [name |-> "generate_proactive_message", arguments |-> args]
  /\ server' = CustomerServiceServer
  /\ storeLog' = IF IsUndefined(args) THEN <<>>
                 ELSE <<Sent(ScanCommand(PASSENGERS_TABLE), outcome)>>
  /\ response' = Settled(CatchAsErrorText(ProactiveMessageBody(args, outcome, passengersTable)))
  /\ UNCHANGED <<process, handlers, flightsTable, bookingsTable, passengersTable,
                 delayNotificationsTable, supportSessionsTable, now>>

(***************************************************************************)
(* create_rebooking_workflow                                               *)
(***************************************************************************)
APPROVAL_FARE_DIFFERENCE == 500

\* approval demanded from the threshold on
FareAtOrAboveThreshold(selected_alternative) ==
  Has(selected_alternative, "fare_difference") /\
  selected_alternative.fare_difference >= APPROVAL_FARE_DIFFERENCE

\* selected_alternative.fare_difference > 500 (undefined > 500 is false)
FareAboveThreshold(selected_alternative) ==
  Has(selected_alternative, "fare_difference") /\
  selected_alternative.fare_difference > APPROVAL_FARE_DIFFERENCE

\* additional_services = [] when the argument is undefined
AdditionalServices(args) ==
  IF Has(args, "additional_services") THEN args.additional_services ELSE <<>>

\* the plan with a payment step before the confirmation
WorkflowStepsWithPayment(args) ==
  <<[step |-> 1, action |-> "Cancel original booking"],
    [step |-> 2, action |-> "Book alternative flight"],
    [step |-> 3, action |-> "Process seat assignment"],
    [step |-> 4, action |-> "Add additional services"],
    [step |-> 5, action |-> "Collect fare difference"],
    [step |-> 6, action |-> "Send confirmation"]>>

WorkflowSteps(args) ==
  LET alternative == args.selected_alternative
      services == AdditionalServices(args)
  IN <<[step |-> 1, action |-> "Cancel original booking",
        details |-> [text |-> "Cancel existing reservation for passenger",
                     passenger_id |-> StringOf(args, "passenger_id")]],
       [step |-> 2, action |-> "Book alternative flight",
        details |-> [text |-> "Book from to",
                     flight_number |-> StringOf(alternative, "flight_number"),
                     origin |-> StringOf(alternative, "origin"),
                     destination |-> StringOf(alternative, "destination")]],
       [step |-> 3, action |-> "Process seat assignment",
        details |-> [text |-> "Assign preferred seat based on passenger profile"]],
       [step |-> 4, action |-> "Add additional services",
        details |-> IF Len(services) > 0
                    THEN [text |-> "Add services:", services |-> services]
                    ELSE [text |-> "No additional services requested"]],
       [step |-> 5, action |-> "Send confirmation",
        details |-> [text |-> "Send booking confirmation and updated itinerary"]]>>

RebookingWorkflowBody(args, clock) ==
  IF IsUndefined(args) THEN Throw(CannotReadProperty("passenger_id"))
  ELSE IF ~Has(args, "selected_alternative")
  THEN Throw(CannotReadProperty("flight_number"))
  ELSE Return(TextResult(
         [tmpl |-> "Json",
          workflow_id |-> <<"WF_", clock>>,
          steps |-> WorkflowSteps(args),
          estimated_completion |-> "5-10 minutes",
          requires_agent_approval |-> FareAboveThreshold(args.selected_alternative)]
         @@ Project(args, [passenger_id |-> "passenger_id"])))

create_rebooking_workflow(args) ==
  /\ request' = [name |-> "create_rebooking_workflow", arguments |-> args]
  /\ server' = CustomerServiceServer
  /\ storeLog' = <<>>
  /\ response' = Settled(CatchAsErrorText(RebookingWorkflowBody(args, now)))
  /\ UNCHANGED <<process, handlers, flightsTable, bookingsTable, passengersTable,
                 delayNotificationsTable, supportSessionsTable, now>>

(***************************************************************************)
(* escalation_handoff                                                      *)
(***************************************************************************)
IssueComplexity(args) ==
  IF Has(args, "issue_complexity") THEN args.issue_complexity ELSE "undefined"

\* compensation cases raised to the top priority as well
HandoffPriorityCompensationHigh(issue_complexity) ==
  IF issue_complexity \in {"vip_handling", "compensation_required"} THEN "HIGH"
  ELSE "NORMAL"

HandoffPriority(issue_complexity) ==
  IF issue_complexity = "vip_handling" THEN "HIGH"
  ELSE IF issue_complexity = "compensation_required" THEN "MEDIUM"
  ELSE "NORMAL"

HandoffAgentType(issue_complexity) ==
  IF issue_complexity = "vip_handling" THEN "Senior VIP Agent"
  ELSE IF issue_complexity = "complex_itinerary" THEN "Specialist Agent"
  ELSE "Standard Agent"

getHandoffReason(complexity) ==
  CASE complexity = "vip_handling" ->
         "VIP customer requires personalized attention and premium service"
    [] complexity = "complex_itinerary" ->
         "Multiple flights/complex routing requires specialist handling"
    [] complexity = "compensation_required" ->
         "Customer may be entitled to compensation - requires policy expertise"
    [] complexity = "simple_rebooking" ->
         "Standard rebooking that couldn't be completed automatically"
    [] OTHER -> "General customer service assistance required"

ConversationHistory(args) ==
  IF Has(args, "conversation_history") THEN args.conversation_history ELSE <<>>

EscalationHandoffBody(args, clock) ==
  IF IsUndefined(args) THEN Throw(CannotReadProperty("passenger_id"))
  ELSE LET issue_complexity == IssueComplexity(args)
           history == ConversationHistory(args)
       IN Return(TextResult(
            [tmpl |-> "Json",
             escalation_id |-> <<"ESC_", clock>>,
             priority |-> HandoffPriority(issue_complexity),
             context |->
               [conversation_summary |->
                  IF Len(history) > 0
                  THEN [text |-> "Customer has had previous interactions",
                        count |-> Len(history)]
                  ELSE [text |-> "First contact"],
                recommended_agent_type |-> HandoffAgentType(issue_complexity),
                preparation_notes |->
                  <<"Customer is already aware of delay",
                    "Alternative options have been presented",
                    "Customer preferences are documented in profile">>],
             handoff_reason |-> getHandoffReason(issue_complexity)]
            @@ Project(args, [passenger_id |-> "passenger_id",
                              issue_complexity |-> "issue_complexity"])))

escalation_handoff(args) ==
  /\ request' = [name |-> "escalation_handoff", arguments |-> args]
  /\ server' = CustomerServiceServer
  /\ storeLog' = <<>>
  /\ response' = Settled(CatchAsErrorText(EscalationHandoffBody(args, now)))
  /\ UNCHANGED <<process, handlers, flightsTable, bookingsTable, passengersTable,
                 delayNotificationsTable, supportSessionsTable, now>>

(***************************************************************************)
(* create_delay_notification and start_support_session.  Both read the     *)
(* clock twice: Date.now() for the id, then new Date() for the timestamp,  *)
(* which may already show the next millisecond.                            *)
(***************************************************************************)
\* the attribute that identifies a record of each table
DelayNotificationKey == "NotificationId"
SupportSessionKey == "SessionId"

\* PutItem: the item replaces the record that has its key, or is added
PutItem(table, item, key) ==
  IF \E i \in DOMAIN table : table[i][key] = item[key]
  THEN [i \in DOMAIN table |-> IF table[i][key] = item[key] THEN item ELSE table[i]]
  ELSE Append(table, item)

\* the default taken for a text message instead of an e-mail
NotificationTypeDefaultSms(args) ==
  IF Has(args, "notification_type") THEN args.notification_type ELSE "sms"

\* notification_type = "email" when the argument is undefined
NotificationType(args) ==
  IF Has(args, "notification_type") THEN args.notification_type ELSE "email"

\* the record handed to PutCommand; attributes whose value is undefined are
\* not stored
Notification(args, idClock, createdClock) ==
  [NotificationId |-> <<"NOTIFY_", idClock>>,
   CreatedAt |-> [iso |-> createdClock],
   NotificationType |-> NotificationType(args),
   Status |-> "sent",
   DeliveredAt |-> [iso |-> createdClock]]
  @@ Project(args, [PassengerId |-> "passenger_id",
                    FlightNumber |-> "flight_number",
                    DelayMinutes |-> "delay_minutes",
                    MessageContent |-> "message_content"])

\* the answer built without waiting for the outcome of the Put
DelayNotificationBodyBeforePut(args, outcome, idClock, createdClock) ==
  IF IsUndefined(args) THEN Throw(CannotReadProperty("passenger_id"))
  ELSE Return(TextResult(
         [tmpl |-> "Json",
          notification_id |-> <<"NOTIFY_", idClock>>,
          status |-> "created",
          notification_type |-> NotificationType(args),
          created_at |-> [iso |-> createdClock]]
         @@ Project(args, [passenger_id |-> "passenger_id",
                           flight_number |-> "flight_number"])))

DelayNotificationBody(args, outcome, idClock, createdClock) ==
  IF IsUndefined(args) THEN Throw(CannotReadProperty("passenger_id"))
  ELSE IF outcome.rejected THEN Throw(outcome)
  ELSE Return(TextResult(
         [tmpl |-> "Json",
          notification_id |-> <<"NOTIFY_", idClock>>,
          status |-> "created",
          notification_type |-> NotificationType(args),
          created_at |-> [iso |-> createdClock]]
         @@ Project(args, [passenger_id |-> "passenger_id",
                           flight_number |-> "flight_number"])))

create_delay_notification(args, outcome, createdClock) ==
  /\ IsUndefined(args) => createdClock = now
  /\ request' = [name |-> "create_delay_notification", arguments |-> args]
  /\ server' = CustomerServiceServer
  /\ now' = createdClock
  /\ \E notification \in {IF IsUndefined(args) THEN NoFields
                          ELSE Notification(args, now, createdClock)} :
       /\ storeLog' = IF IsUndefined(args) THEN <<>>
                      ELSE <<Sent(PutCommand(DELAY_NOTIFICATIONS_TABLE, notification),
                                  outcome)>>
       /\ delayNotificationsTable' =
            IF IsUndefined(args) \/ outcome.rejected THEN delayNotificationsTable
            ELSE PutItem(delayNotificationsTable, notification, DelayNotificationKey)
  /\ response' = Settled(CatchAsErrorText(
                   DelayNotificationBody(args, outcome, now, createdClock)))
  /\ UNCHANGED <<process, handlers, flightsTable, bookingsTable, passengersTable, supportSessionsTable>>

\* initial_context = "" and agent_id = "AI_ASSISTANT" when undefined
SupportSession(args, idClock, createdClock) ==
  [SessionId |-> <<"SESSION_", idClock>>,
   CreatedAt |-> [iso |-> createdClock],
   AgentId |-> IF Has(args, "agent_id") THEN args.agent_id ELSE "AI_ASSISTANT",
   InitialContext |-> IF Has(args, "initial_context") THEN args.initial_context ELSE "",
   Status |-> "active",
   Messages |-> <<>>,
   Resolution |-> Null]
  @@ Project(args, [PassengerId |-> "passenger_id", IssueType |-> "issue_type"])

SupportSessionBody(args, outcome, idClock, createdClock) ==
  IF IsUndefined(args) THEN Throw(CannotReadProperty("passenger_id"))
  ELSE IF outcome.rejected THEN Throw(outcome)
  ELSE Return(TextResult(
         [tmpl |-> "Json",
          session_id |-> <<"SESSION_", idClock>>,
          status |-> "started",
          agent_id |-> IF Has(args, "agent_id") THEN args.agent_id ELSE "AI_ASSISTANT",
          created_at |-> [iso |-> createdClock]]
         @@ Project(args, [passenger_id |-> "passenger_id",
                           issue_type |-> "issue_type"])))

start_support_session(args, outcome, createdClock) ==
  /\ IsUndefined(args) => createdClock = now
  /\ request' = [name |-> "start_support_session", arguments |-> args]
  /\ server' = CustomerServiceServer
  /\ now' = createdClock
  /\ \E session \in {IF IsUndefined(args) THEN NoFields
                     ELSE SupportSession(args, now, createdClock)} :
       /\ storeLog' = IF IsUndefined(args) THEN <<>>
                      ELSE <<Sent(PutCommand(CUSTOMER_SUPPORT_SESSIONS_TABLE, session),
                                  outcome)>>
       /\ supportSessionsTable' =
            IF IsUndefined(args) \/ outcome.rejected THEN supportSessionsTable
            ELSE PutItem(supportSessionsTable, session, SupportSessionKey)
  /\ response' = Settled(CatchAsErrorText(
                   SupportSessionBody(args, outcome, now, createdClock)))
  /\ UNCHANGED <<process, handlers, flightsTable, bookingsTable, passengersTable, delayNotificationsTable>>

(***************************************************************************)
(* The default case of each server's switch (name).                        *)
(***************************************************************************)
FlightOpsTools ==
  {"check_flight_delays", "find_alternative_flights", "get_affected_passengers",
   "test_connection"}

CustomerServiceTools ==
  {"generate_proactive_message", "create_rebooking_workflow", "escalation_handoff",
   "create_delay_notification", "start_support_session"}

\* the text without the requested name
UnknownToolTextUnnamed(name) == [tmpl |-> "Unknown tool: "]

\* `Unknown tool: ${name}`
UnknownToolText(name) == [tmpl |-> "Unknown tool: ", name |-> name]

flight_ops_default(name, args) ==
  /\ name \notin FlightOpsTools
  /\ request' = [name |-> name, arguments |-> args]
  /\ server' = FlightOpsServer
  /\ storeLog' = <<>>
  /\ response' = TextResult(UnknownToolText(name))
  /\ UNCHANGED <<process, handlers, flightsTable, bookingsTable, passengersTable,
                 delayNotificationsTable, supportSessionsTable, now>>

customer_service_default(name, args) ==
  /\ name \notin CustomerServiceTools
  /\ request' = [name |-> name, arguments |-> args]
  /\ server' = CustomerServiceServer
  /\ storeLog' = <<>>
  /\ response' = TextResult(UnknownToolText(name))
  /\ UNCHANGED <<process, handlers, flightsTable, bookingsTable, passengersTable,
                 delayNotificationsTable, supportSessionsTable, now>>

(***************************************************************************)
(* Customer-service requests that write nothing: message generation,       *)
(* rebooking workflow, escalation handoff.                                 *)
(***************************************************************************)
CustomerPassengerItems ==
  { [PassengerId |-> "P1", BookingReference |-> "B1"] @@ t :
      t \in {NoFields} \cup {Attr("FrequentFlyerTier", v) : v \in {"senator", "Senator"}} }
  \cup {[PassengerId |-> "P2", BookingReference |-> "B1", FrequentFlyerTier |-> "senator"]}

DelayInfo == [flight_number |-> "LH441", reason |-> "weather", delay_minutes |-> 45]

ProactiveArgs ==
  { p @@ d @@ t @@ a :
      p \in {NoFields} \cup {Attr("passenger_id", v) : v \in {"P1", "P3"}},
      d \in {NoFields, Attr("delay_info", DelayInfo)},
      t \in {NoFields} \cup {Attr("message_tone", v) : v \in {"premium_service"}},
      a \in {NoFields, Attr("alternatives", <<>>)} }

ProactiveCalls ==
  ((ProactiveArgs \cup {Undefined}) \X {Resolved}) \cup
  {<<[passenger_id |-> "P1", delay_info |-> DelayInfo], ResourceNotFound>>}

SelectedAlternatives ==
  { [flight_number |-> "LH403", origin |-> "FRA", destination |-> "JFK"] @@ f :
      f \in {NoFields} \cup {Attr("fare_difference", v) : v \in {0, 500, 501}} }

RebookingArgs ==
  { p @@ a @@ v :
      p \in {NoFields, Attr("passenger_id", "P1")},
      a \in {NoFields} \cup {Attr("selected_alternative", x) : x \in SelectedAlternatives},
      v \in {NoFields, Attr("additional_services", <<"lounge access", "meal voucher">>)} }
  \cup {Undefined}

IssueComplexities ==
  {"simple_rebooking", "complex_itinerary", "compensation_required", "vip_handling",
   "VIP_HANDLING"}

HandoffArgs ==
  { p @@ c @@ h :
      p \in {NoFields, Attr("passenger_id", "P1")},
      c \in {NoFields} \cup {Attr("issue_complexity", v) : v \in IssueComplexities},
      h \in {NoFields, Attr("conversation_history", <<"hello">>)} }
  \cup {Undefined}

InitCustomer ==
  /\ flightsTable = <<>>
  /\ bookingsTable = <<>>
  /\ passengersTable \in BoundedSeq(CustomerPassengerItems, MaxCustomerPassengers)
  /\ request = NoRequest
  /\ response = NoResponse
  /\ storeLog = <<>>
  /\ NoCustomerService

NextCustomer ==
  \/ \E call \in ProactiveCalls : generate_proactive_message(call[1], call[2])
  \/ \E args \in RebookingArgs : create_rebooking_workflow(args)
  \/ \E args \in HandoffArgs : escalation_handoff(args)

SpecCustomer == InitCustomer /\ [][NextCustomer]_vars

(***************************************************************************)
(* Customer-service requests that write records, and the passing of time.  *)
(***************************************************************************)
NotificationArgs ==
  { [passenger_id |-> "P1", flight_number |-> "LH1", delay_minutes |-> 45] @@ t :
      t \in {NoFields, Attr("notification_type", "sms")} }
  \cup {[flight_number |-> "LH1"], Undefined}

SessionArgs ==
  {[passenger_id |-> "P1", issue_type |-> "rebooking"], Undefined}

ClockReadings == {t \in {now, now + 1} : t <= MaxClock}

\* a millisecond passes between two requests
Tick ==
  /\ now < MaxClock
  /\ now' = now + 1
  /\ UNCHANGED <<process, handlers, flightsTable, bookingsTable, passengersTable, request, response,
                 storeLog, server, delayNotificationsTable, supportSessionsTable>>

InitRecords ==
  /\ flightsTable = <<>>
  /\ bookingsTable = <<>>
  /\ passengersTable = <<>>
  /\ request = NoRequest
  /\ response = NoResponse
  /\ storeLog = <<>>
  /\ NoCustomerService

NextRecords ==
  \/ \E args \in NotificationArgs, outcome \in {Resolved, ResourceNotFound},
        createdClock \in ClockReadings :
          create_delay_notification(args, outcome, createdClock)
  \/ \E args \in SessionArgs, outcome \in {Resolved, ResourceNotFound},
        createdClock \in ClockReadings :
          start_support_session(args, outcome, createdClock)
  \/ Tick

SpecRecords == InitRecords /\ [][NextRecords]_vars

(***************************************************************************)
(* Reading the customer-service results.                                   *)
(***************************************************************************)
AnsweredBy(who, name) ==
  server = who /\ request.name = name /\ Has(response, "content")

\* the stored records whose PassengerId is the requested id, in scan order
RequestedPassengers ==
  LET wanted(item) ==
        Has(item, "PassengerId") /\
        item.PassengerId = StringOf(request.arguments, "passenger_id")
  IN SelectSeq(passengersTable, wanted)

MessageRendered ==
  /\ AnsweredBy(CustomerServiceServer, "generate_proactive_message")
  /\ LastText.tmpl = "Json"

\* C11: generate_proactive_message renders the senator template exactly when
\* the tier of the stored passenger (the first record the scan returns for
\* the id) is "senator", and the generic template for every other tier and
\* for a record without tier, whatever message_tone the request carries.
C11_TemplateKeyedOnTierOnly ==
  ( /\ AnsweredBy(CustomerServiceServer, "generate_proactive_message")
    /\ Has(request.arguments, "delay_info")
    /\ ~storeLog[1].rejected
    /\ Len(RequestedPassengers) > 0 )
  =>
    /\ MessageRendered
    /\ LastText.message.template \in {"Dear Valued Senator Member", "Hello"}
    /\ (LastText.message.template = "Dear Valued Senator Member") <=>
         (Has(RequestedPassengers[1], "FrequentFlyerTier") /\
          RequestedPassengers[1].FrequentFlyerTier = "senator")

\* C11 witness: a passenger without tier asked for in premium_service tone
\* gets the generic template
C11_Witness ==
  /\ MessageRendered
  /\ Has(request.arguments, "message_tone")
  /\ request.arguments.message_tone = "premium_service"
  /\ ~Has(RequestedPassengers[1], "FrequentFlyerTier")
  /\ LastText.message.template = "Hello"

\* C12: when the scan of generate_proactive_message resolves and no stored
\* record has the requested passenger id, the answer is the text
\* "Passenger <id> not found" with that id, no Put was sent, and no table
\* changed.
C12_NotFoundWritesNothing ==
  [][ ( /\ request'.name = "generate_proactive_message"
        /\ ~IsUndefined(request'.arguments)
        /\ ~storeLog'[1].rejected
        /\ \A i \in DOMAIN passengersTable :
             passengersTable[i].PassengerId # StringOf(request'.arguments, "passenger_id") )
      => ( /\ response' = TextResult(
                  [tmpl |-> "PassengerNotFound",
                   passenger_id |-> StringOf(request'.arguments, "passenger_id")])
           /\ \A i \in DOMAIN storeLog' : storeLog'[i].command # "Put"
           /\ UNCHANGED <<flightsTable, bookingsTable, passengersTable,
                          delayNotificationsTable, supportSessionsTable>> ) ]_vars

\* C12 witness: passenger P3 was asked for in a store that holds other
\* passengers, and reported as not found
C12_Witness ==
  /\ AnsweredBy(CustomerServiceServer, "generate_proactive_message")
  /\ Len(passengersTable) > 0
  /\ LastText = [tmpl |-> "PassengerNotFound", passenger_id |-> "P3"]

NotificationCreated ==
  /\ AnsweredBy(CustomerServiceServer, "create_delay_notification")
  /\ LastText.tmpl = "Json"

\* the stored notifications that carry the id the last answer reports
ReportedNotifications ==
  {i \in DOMAIN delayNotificationsTable :
     delayNotificationsTable[i].NotificationId = LastText.notification_id}

\* C13: a create_delay_notification call with passenger_id, flight_number and
\* delay_minutes whose Put resolves has sent exactly one command, a Put to
\* DelayNotifications, and the table then holds one record under the reported
\* id: its Status is "sent", its NotificationId starts with "NOTIFY_", its
\* passenger, flight and delay are the arguments; the answer echoes
\* notification_type, which is "email" when the argument is omitted.
C13_NotificationWrittenAndEchoed ==
  ( /\ NotificationCreated
    /\ \A a \in {"passenger_id", "flight_number", "delay_minutes"} :
         Has(request.arguments, a) )
  => /\ Len(storeLog) = 1
     /\ storeLog[1].command = "Put"
     /\ storeLog[1].TableName = "DelayNotifications"
     /\ Cardinality(ReportedNotifications) = 1
     /\ \A i \in ReportedNotifications :
          /\ delayNotificationsTable[i] = storeLog[1].Item
          /\ delayNotificationsTable[i].Status = "sent"
          /\ delayNotificationsTable[i].NotificationId[1] = "NOTIFY_"
          /\ delayNotificationsTable[i].PassengerId = request.arguments.passenger_id
          /\ delayNotificationsTable[i].FlightNumber = request.arguments.flight_number
          /\ delayNotificationsTable[i].DelayMinutes = request.arguments.delay_minutes
     /\ LastText.status = "created"
     /\ LastText.notification_type =
          (IF Has(request.arguments, "notification_type")
           THEN request.arguments.notification_type ELSE "email")

\* C13 witness: the spec's example call, without notification_type, was
\* answered with notification_type "email" and its record is stored
C13_Witness ==
  /\ NotificationCreated
  /\ request.arguments = [passenger_id |-> "P1", flight_number |-> "LH1", delay_minutes |-> 45]
  /\ LastText.notification_type = "email"
  /\ \E i \in DOMAIN delayNotificationsTable :
       delayNotificationsTable[i].Status = "sent"

\* C14: no step of the system updates or deletes a stored DelayNotification
\* or CustomerSupportSession: every record in either table before a step is
\* in that table, field for field, after it, also when two creates are
\* handled within the same millisecond.
C14_RecordsNeverUpdatedOrDeleted ==
  [][ /\ \A i \in DOMAIN delayNotificationsTable :
           \E j \in DOMAIN delayNotificationsTable' :
              delayNotificationsTable'[j] = delayNotificationsTable[i]
      /\ \A i \in DOMAIN supportSessionsTable :
           \E j \in DOMAIN supportSessionsTable' :
              supportSessionsTable'[j] = supportSessionsTable[i] ]_vars

\* the mapping the handoff is specified to apply
SpecifiedPriority(complexity) ==
  CASE complexity = "vip_handling" -> "HIGH"
    [] complexity = "compensation_required" -> "MEDIUM"
    [] OTHER -> "NORMAL"

SpecifiedAgentType(complexity) ==
  CASE complexity = "vip_handling" -> "Senior VIP Agent"
    [] complexity = "complex_itinerary" -> "Specialist Agent"
    [] OTHER -> "Standard Agent"

HandoffRequested ==
  /\ AnsweredBy(CustomerServiceServer, "escalation_handoff")
  /\ ~IsUndefined(request.arguments)

\* C15: escalation_handoff answers with priority HIGH for vip_handling,
\* MEDIUM for compensation_required and NORMAL for any other (or no)
\* issue_complexity, with recommended_agent_type "Senior VIP Agent" for
\* vip_handling, "Specialist Agent" for complex_itinerary and "Standard
\* Agent" otherwise, and sends no store command.
C15_HandoffMapping ==
  HandoffRequested =>
    \E complexity \in {IF Has(request.arguments, "issue_complexity")
                       THEN request.arguments.issue_complexity ELSE "none given"} :
      /\ LastText.tmpl = "Json"
      /\ LastText.priority = SpecifiedPriority(complexity)
      /\ LastText.context.recommended_agent_type = SpecifiedAgentType(complexity)
      /\ storeLog = <<>>

\* C15 witness: a compensation_required handoff came back MEDIUM for a
\* Standard Agent
C15_Witness ==
  /\ HandoffRequested
  /\ Has(request.arguments, "issue_complexity")
  /\ request.arguments.issue_complexity = "compensation_required"
  /\ LastText.priority = "MEDIUM"
  /\ LastText.context.recommended_agent_type = "Standard Agent"

WorkflowRequested ==
  /\ AnsweredBy(CustomerServiceServer, "create_rebooking_workflow")
  /\ Has(request.arguments, "selected_alternative")

\* C16: create_rebooking_workflow answers requires_agent_approval true
\* exactly when the selected alternative has a fare_difference above 500:
\* false at 500, below it, and when the field is absent.
C16_ApprovalAboveFiveHundred ==
  WorkflowRequested =>
    /\ LastText.tmpl = "Json"
    /\ LastText.requires_agent_approval <=>
         ( /\ Has(request.arguments.selected_alternative, "fare_difference")
           /\ request.arguments.selected_alternative.fare_difference > 500 )

\* C16 witness: a fare difference of exactly 500 needs no approval
C16_Witness ==
  /\ WorkflowRequested
  /\ Has(request.arguments.selected_alternative, "fare_difference")
  /\ request.arguments.selected_alternative.fare_difference = 500
  /\ LastText.requires_agent_approval = FALSE

\* C17: every create_rebooking_workflow step sends no store command and
\* leaves every table as it was; given a selected alternative it answers
\* with exactly five steps numbered 1 to 5: cancel, book alternative, seat
\* assignment, add services, send confirmation.
C17_WorkflowOnlyDescribes ==
  [][ request'.name = "create_rebooking_workflow" =>
        /\ storeLog' = <<>>
        /\ UNCHANGED <<flightsTable, bookingsTable, passengersTable,
                       delayNotificationsTable, supportSessionsTable>>
        /\ Has(request'.arguments, "selected_alternative") =>
             /\ response'.content[1].text.tmpl = "Json"
             /\ [i \in DOMAIN response'.content[1].text.steps |->
                   <<response'.content[1].text.steps[i].step,
                     response'.content[1].text.steps[i].action>>]
                = << <<1, "Cancel original booking">>,
                     <<2, "Book alternative flight">>,
                     <<3, "Process seat assignment">>,
                     <<4, "Add additional services">>,
                     <<5, "Send confirmation">> >> ]_vars

\* C17 witness: a workflow of five steps was returned over a store that
\* holds passengers, without a store command
C17_Witness ==
  /\ WorkflowRequested
  /\ Len(LastText.steps) = 5
  /\ Len(passengersTable) > 0
  /\ storeLog = <<>>

(***************************************************************************)
(* Both servers over one small store: every tool of each, called with and  *)
(* without an argument object, every store call resolving or rejecting,    *)
(* and names that reach the default case.                                  *)
(***************************************************************************)
RequestedNames ==
  FlightOpsTools \cup CustomerServiceTools \cup {"cancel_flight", "", "Test_Connection"}

ServerDelayCalls ==
  {Undefined, NoFields, [airport |-> "MUC", severity |-> "severe"]}
  \X {Resolved, ResourceNotFound}

ServerAltCalls ==
  {Undefined, [origin |-> "FRA"], [origin |-> "FRA", destination |-> "JFK"]}
  \X {Resolved, CredentialsError}

ServerPassengerCalls ==
  {Undefined, [flight_number |-> "LH441"]} \X {Resolved, CredentialsError}

ServerConnectionCalls ==
  {[i \in 1..5 |-> Resolved]} \cup
  {[i \in 1..5 |-> IF i = k THEN CredentialsError ELSE Resolved] : k \in {1, 4}}

ServerProactiveCalls ==
  {Undefined, [passenger_id |-> "P1"], [passenger_id |-> "P1", delay_info |-> DelayInfo],
   [passenger_id |-> "P3", delay_info |-> DelayInfo]}
  \X {Resolved, ResourceNotFound}

ServerRebookingArgs ==
  {Undefined, [passenger_id |-> "P1"],
   [passenger_id |-> "P1",
    selected_alternative |-> [flight_number |-> "LH403", fare_difference |-> 501]]}

ServerHandoffArgs ==
  {Undefined, [passenger_id |-> "P1", issue_complexity |-> "vip_handling"]}

InitServers ==
  /\ flightsTable =
       <<[FlightNumber |-> "LH441", Origin |-> "FRA", Destination |-> "JFK",
          Status |-> delayed, DelayMinutes |-> 45]>>
  /\ bookingsTable = <<Booking(1, "LH441"), Booking(2, "LH441")>>
  /\ passengersTable \in BoundedSeq(PassengerRecords(1), 1)
  /\ request = NoRequest
  /\ response = NoResponse
  /\ storeLog = <<>>
  /\ NoCustomerService

NextServers ==
  \/ \E call \in ServerDelayCalls : check_flight_delays(call[1], call[2])
  \/ \E call \in ServerAltCalls : find_alternative_flights(call[1], call[2])
  \/ \E call \in ServerPassengerCalls : get_affected_passengers(call[1], call[2])
  \/ \E outcomes \in ServerConnectionCalls : test_connection(outcomes, <<0, 0>>)
  \/ \E name \in RequestedNames, args \in {Undefined, NoFields} :
        flight_ops_default(name, args)
  \/ \E call \in ServerProactiveCalls : generate_proactive_message(call[1], call[2])
  \/ \E args \in ServerRebookingArgs : create_rebooking_workflow(args)
  \/ \E args \in ServerHandoffArgs : escalation_handoff(args)
  \/ \E args \in NotificationArgs, outcome \in {Resolved, ResourceNotFound} :
        create_delay_notification(args, outcome, now)
  \/ \E args \in SessionArgs, outcome \in {Resolved, CredentialsError} :
        start_support_session(args, outcome, now)
  \/ \E name \in RequestedNames, args \in {Undefined, NoFields} :
        customer_service_default(name, args)

SpecServers == InitServers /\ [][NextServers]_vars

(***************************************************************************)
(* Reading the results of either server.                                   *)
(***************************************************************************)
ToolsOf(who) ==
  IF who = FlightOpsServer THEN FlightOpsTools ELSE CustomerServiceTools

UnregisteredToolCalled == server # NoServer /\ request.name \notin ToolsOf(server)

\* C18: on either server a tools/call whose name is none of the server's
\* tools is answered with the text "Unknown tool: <name>" carrying the
\* requested name, in an ordinary result envelope, without any store command.
C18_UnknownToolIsTextResult ==
  UnregisteredToolCalled =>
    /\ response = [content |-> <<[type |-> "text",
                                  text |-> [tmpl |-> "Unknown tool: ",
                                            name |-> request.name]]>>]
    /\ storeLog = <<>>

\* C18 witness: the flight-operations server was asked for a tool that only
\* the customer-service server has
C18_Witness ==
  /\ server = FlightOpsServer
  /\ request.name = "create_delay_notification"
  /\ LastText.tmpl = "Unknown tool: "
  /\ LastText.name = "create_delay_notification"

\* C19: whatever tool of either server was called, with or without an
\* argument object, with or without its nested fields, and however each
\* store call settled, the handler returned an envelope whose content is
\* one text item; no error left the handler.
C19_NoErrorEscapes ==
  server # NoServer =>
    /\ DOMAIN response = {"content"}
    /\ Len(response.content) = 1
    /\ response.content[1].type = "text"

\* C19 witness: create_rebooking_workflow without selected_alternative was
\* answered with the text of the TypeError it caught
C19_Witness ==
  /\ AnsweredBy(CustomerServiceServer, "create_rebooking_workflow")
  /\ ~IsUndefined(request.arguments)
  /\ ~Has(request.arguments, "selected_alternative")
  /\ LastText = [tmpl |-> "Error",
                 message |-> [cannotReadPropertyOfUndefined |-> "flight_number"]]

\* the failure texts that carry a troubleshooting list: "Possible causes:"
\* of check_flight_delays and "Troubleshooting:" of test_connection
TroubleshootingTemplates == {"DatabaseError", "ConnectionTestFailed"}

RejectedSends == {i \in DOMAIN storeLog : storeLog[i].rejected}

\* C20 as stated: whenever a store call of the handled request failed, the
\* returned text holds the error's message and a troubleshooting checklist.
C20_FailureTextHasMessageAndChecklist ==
  (server # NoServer /\ RejectedSends # {}) =>
    \A i \in RejectedSends :
      /\ Has(LastText, "message")
      /\ LastText.message = storeLog[i].message
      /\ LastText.tmpl \in TroubleshootingTemplates

\* C20 amended: whenever a store call other than a passenger lookup of
\* get_affected_passengers failed, the returned text holds the error's
\* message; it carries a troubleshooting checklist exactly when the tool is
\* check_flight_delays or test_connection.
C20_FailureTextHasMessage ==
  server # NoServer =>
    \A i \in RejectedSends :
      storeLog[i].command # "Get" =>
        /\ Has(LastText, "message")
        /\ LastText.message = storeLog[i].message
        /\ (LastText.tmpl \in TroubleshootingTemplates) <=>
             (server = FlightOpsServer /\
              request.name \in {"check_flight_delays", "test_connection"})

\* C20 witness: a rejected Put of create_delay_notification was answered
\* with the error's message and no checklist
C20_Witness ==
  /\ AnsweredBy(CustomerServiceServer, "create_delay_notification")
  /\ RejectedSends # {}
  /\ LastText = [tmpl |-> "Error", message |-> "Requested resource not found"]

(***************************************************************************)
(* The commands either server sends that change the store.                 *)
(***************************************************************************)
ReadCommands == {"Scan", "Query", "Get"}

WrittenTables == {"DelayNotifications", "CustomerSupportSessions"}

\* C21: no tool call of either server changes the Flights, Passengers or
\* Bookings table, and every command a call sends is a read or a Put to
\* DelayNotifications or CustomerSupportSessions.
C21_ReferenceTablesReadOnly ==
  [][/\ UNCHANGED <<flightsTable, bookingsTable, passengersTable>>
     /\ \A i \in DOMAIN storeLog' :
          \/ storeLog'[i].command \in ReadCommands
          \/ /\ storeLog'[i].command = "Put"
             /\ storeLog'[i].TableName \in WrittenTables]_vars

\* C21 witness: a notification was put and stored while the three reference
\* tables hold records
C21_Witness ==
  /\ AnsweredBy(CustomerServiceServer, "create_delay_notification")
  /\ Len(storeLog) = 1 /\ storeLog[1].command = "Put" /\ ~storeLog[1].rejected
  /\ Len(delayNotificationsTable) > 0
  /\ Len(flightsTable) > 0 /\ Len(bookingsTable) > 0 /\ Len(passengersTable) > 0

\* C25: the count in the text of get_affected_passengers is the number of
\* passenger records in the returned list, and every entry of the list is a
\* record of the Passengers table; a booking whose Get finds no record adds
\* no entry and is not counted.
C25_CountIsRecordsInStore ==
  PassengersFound =>
    /\ \A i \in DOMAIN ReturnedPassengers :
         \E j \in DOMAIN passengersTable : passengersTable[j] = ReturnedPassengers[i]
    /\ LastText.count = Len(ReturnedPassengers)

\* C27: no record lacking an attribute whose argument the input schema marks
\* as required (passenger id, flight number and delay minutes of a
\* notification; passenger id and issue type of a session) is ever put into
\* DelayNotifications or CustomerSupportSessions.
C27_NoRecordWithoutRequiredArguments ==
  /\ \A i \in DOMAIN delayNotificationsTable :
       /\ Has(delayNotificationsTable[i], "PassengerId")
       /\ Has(delayNotificationsTable[i], "FlightNumber")
       /\ Has(delayNotificationsTable[i], "DelayMinutes")
  /\ \A i \in DOMAIN supportSessionsTable :
       /\ Has(supportSessionsTable[i], "PassengerId")
       /\ Has(supportSessionsTable[i], "IssueType")

(***************************************************************************)
(* Reading the answer of create_delay_notification or start_support_session.*)
(***************************************************************************)
CreateTools == {"create_delay_notification", "start_support_session"}

CreateAnswered ==
  /\ server = CustomerServiceServer
  /\ request.name \in CreateTools
  /\ Has(response, "content")

\* the answer reports status "created" or "started"
SuccessEchoed ==
  /\ CreateAnswered
  /\ Has(LastText, "status")
  /\ LastText.status \in {"created", "started"}

PutRejected == CreateAnswered /\ Len(storeLog) = 1 /\ storeLog[1].rejected

\* the records stored under the id the answer reports, as a set
EchoedRecords ==
  IF request.name = "create_delay_notification"
  THEN {delayNotificationsTable[i] :
          i \in {k \in DOMAIN delayNotificationsTable :
                   delayNotificationsTable[k].NotificationId = LastText.notification_id}}
  ELSE {supportSessionsTable[i] :
          i \in {k \in DOMAIN supportSessionsTable :
                   supportSessionsTable[k].SessionId = LastText.session_id}}

\* C28: when the Put of create_delay_notification or start_support_session
\* rejects, the response is the error text with the rejection's message and
\* the call leaves both tables as they were; when the response reports
\* "created" or "started", the Put resolved and the table holds the sent
\* record under the echoed id.
C28_SuccessEchoedOnlyAfterPut ==
  [][/\ PutRejected' =>
          /\ ~SuccessEchoed'
          /\ LastText' = [tmpl |-> "Error", message |-> storeLog'[1].message]
          /\ UNCHANGED <<delayNotificationsTable, supportSessionsTable>>
     /\ SuccessEchoed' =>
          /\ Len(storeLog') = 1
          /\ storeLog'[1].command = "Put"
          /\ ~storeLog'[1].rejected
          /\ EchoedRecords' = {storeLog'[1].Item}]_vars

\* C28 witness: a start_support_session whose Put was rejected is answered
\* with the error text and no session is stored, while the notification of an
\* earlier, successful create_delay_notification is
C28_Witness ==
  /\ PutRejected
  /\ request.name = "start_support_session"
  /\ LastText.tmpl = "Error"
  /\ supportSessionsTable = <<>>
  /\ Len(delayNotificationsTable) = 1

(***************************************************************************)
(* Startup: main() of each server and what is attached to its rejection.   *)
(***************************************************************************)
\* server.connect(transport) rejecting
TransportError ==
  [rejected |-> TRUE, name |-> "Error", message |-> "transport failed to start"]

ConnectOutcomes == {Resolved, TransportError}

\* main() has rejected and nothing ended the process: it stays, unconnected,
\* for as long as something keeps the event loop alive
Unconnected == [state |-> "unconnected"]

\* main().catch((error) => { console.error(...); process.exit(1); })
flight_ops_main(connect) ==
  /\ process[FlightOpsServer] = Starting
  /\ process' = [process EXCEPT ![FlightOpsServer] =
                   IF connect.rejected THEN Exited(1) ELSE Running]
  /\ UNCHANGED <<handlers, flightsTable, bookingsTable, passengersTable, request,
                 response, storeLog, server, delayNotificationsTable,
                 supportSessionsTable, now>>

\* main().catch(console.error): the rejection is only logged; Node ends the
\* process with code 0 once nothing keeps the event loop alive (eventLoopEmpty),
\* otherwise the process stays
customer_service_main(connect, eventLoopEmpty) ==
  /\ process[CustomerServiceServer] = Starting
  /\ process' = [process EXCEPT ![CustomerServiceServer] =
                   IF ~connect.rejected THEN Running
                   ELSE IF eventLoopEmpty THEN Exited(0) ELSE Unconnected]
  /\ UNCHANGED <<handlers, flightsTable, bookingsTable, passengersTable, request,
                 response, storeLog, server, delayNotificationsTable,
                 supportSessionsTable, now>>

\* a server answers tools/call once its transport is connected
Connected(who) == process[who] = Running

InitStartup ==
  /\ flightsTable =
       <<[FlightNumber |-> "LH441", Origin |-> "FRA", Destination |-> "JFK",
          Status |-> delayed, DelayMinutes |-> 45]>>
  /\ bookingsTable = <<Booking(1, "LH441"), Booking(2, "LH441")>>
  /\ passengersTable \in BoundedSeq(PassengerRecords(1), 1)
  /\ request = NoRequest
  /\ response = NoResponse
  /\ storeLog = <<>>
  /\ server = NoServer
  /\ delayNotificationsTable = <<>>
  /\ supportSessionsTable = <<>>
  /\ now = 0
  /\ process = [s \in Servers |-> Starting]
  /\ handlers = <<>>

NextStartup ==
  \/ \E connect \in ConnectOutcomes : flight_ops_main(connect)
  \/ \E connect \in ConnectOutcomes, eventLoopEmpty \in BOOLEAN :
        customer_service_main(connect, eventLoopEmpty)
  \/ /\ Connected(FlightOpsServer)
     /\ \E call \in ServerPassengerCalls : get_affected_passengers(call[1], call[2])
  \/ /\ Connected(FlightOpsServer)
     /\ \E outcomes \in ServerConnectionCalls : test_connection(outcomes, <<0, 0>>)
  \/ /\ Connected(CustomerServiceServer)
     /\ \E args \in ServerHandoffArgs : escalation_handoff(args)
  \/ /\ Connected(CustomerServiceServer)
     /\ \E args \in NotificationArgs, outcome \in {Resolved, ResourceNotFound} :
          create_delay_notification(args, outcome, now)

SpecStartup == InitStartup /\ [][NextStartup]_vars

\* the server's main() has rejected
StartupFailed(who) == process[who].state \in {"exited", "unconnected"}

\* C23: when connecting the transport rejects, each of the two servers'
\* processes has terminated with exit code 1.
C23_StartupFailureExitsWithOne ==
  \A who \in Servers : StartupFailed(who) => process[who] = Exited(1)

(***************************************************************************)
(* Handlers in flight.  Every tools/call starts one run of the async       *)
(* request handler; the run is suspended at each await until the awaited   *)
(* store call settles, and what it returns is sent as the result envelope  *)
(* of its request.  Nothing in either server holds a request back while    *)
(* the run of an earlier one is suspended.                                 *)
(***************************************************************************)
\* a promise that has not settled
Pending == [jsPending |-> TRUE]

IsPending(value) == Has(value, "jsPending")

\* the store calls a run awaits one after the other, for as long as none
\* rejects
AwaitedCommands(who, name, args, clock) ==
  IF who = FlightOpsServer
  THEN CASE name = "check_flight_delays" -> <<ScanCommand(FLIGHTS_TABLE)>>
         [] name = "find_alternative_flights" ->
              IF OriginOrDestinationMissing(args) THEN <<>>
              ELSE <<ScanCommand(FLIGHTS_TABLE)>>
         [] name = "get_affected_passengers" ->
              IF ~Truthy(args, "flight_number") THEN <<>>
              ELSE <<QueryCommand(BOOKINGS_TABLE, "FlightBookingsIndex")>>
         [] name = "test_connection" ->
              [i \in DOMAIN TestedTables |-> ScanCommand(TestedTables[i])]
         [] OTHER -> <<>>
  ELSE CASE name = "generate_proactive_message" ->
              IF IsUndefined(args) THEN <<>> ELSE <<ScanCommand(PASSENGERS_TABLE)>>
         [] name = "create_delay_notification" ->
              IF IsUndefined(args) THEN <<>>
              ELSE <<PutCommand(DELAY_NOTIFICATIONS_TABLE, Notification(args, clock, clock))>>
         [] name = "start_support_session" ->
              IF IsUndefined(args) THEN <<>>
              ELSE <<PutCommand(CUSTOMER_SUPPORT_SESSIONS_TABLE,
                                SupportSession(args, clock, clock))>>
         [] OTHER -> <<>>

\* how a sent command has settled
OutcomeOf(sent) == [rejected |-> sent.rejected, name |-> sent.name, message |-> sent.message]

\* a rejected call sent once more
AwaitedAfterRetry(plan, log, outcome) ==
  IF outcome.rejected /\ Len(log) = 1 THEN 1
  ELSE IF outcome.rejected \/ Len(log) >= Len(plan) THEN 0
  ELSE Len(log) + 1

\* the position in the plan of the call the run awaits next, 0 when it
\* returns: a rejection leaves the try block, the last call is followed by
\* the return
AwaitedNext(plan, log, outcome) ==
  IF outcome.rejected \/ Len(log) >= Len(plan) THEN 0 ELSE Len(log) + 1

\* what a run that awaited the calls of log one after the other may return
ReturnedResults(who, name, args, log, clock) ==
  LET outcomes == [i \in 1..Len(TestedTables) |->
                     IF i <= Len(log) THEN OutcomeOf(log[i]) ELSE Resolved]
  IN IF who = FlightOpsServer
     THEN CASE name = "check_flight_delays" ->
                 {DelayCheckResult(args, outcomes[1], flightsTable)}
            [] name = "find_alternative_flights" ->
                 IF OriginOrDestinationMissing(args)
                 THEN {TextResult([tmpl |-> "OriginAndDestinationRequired"])}
                 ELSE AlternativeResults(args, outcomes[1], flightsTable)
            [] name = "get_affected_passengers" ->
                 IF ~Truthy(args, "flight_number")
                 THEN {TextResult([tmpl |-> "FlightNumberRequired"])}
                 ELSE {TextResult([tmpl |-> "Error", message |-> outcomes[1].message])}
            [] name = "test_connection" ->
                 {ConnectionTestResult(outcomes, <<SampleSize(delayNotificationsTable), 0>>,
                                       flightsTable, passengersTable, bookingsTable)}
            [] OTHER -> {TextResult(UnknownToolText(name))}
     ELSE CASE name = "generate_proactive_message" ->
                 {Settled(CatchAsErrorText(
                    ProactiveMessageBody(args, outcomes[1], passengersTable)))}
            [] name = "create_rebooking_workflow" ->
                 {Settled(CatchAsErrorText(RebookingWorkflowBody(args, clock)))}
            [] name = "escalation_handoff" ->
                 {Settled(CatchAsErrorText(EscalationHandoffBody(args, clock)))}
            [] name = "create_delay_notification" ->
                 {Settled(CatchAsErrorText(
                    DelayNotificationBody(args, outcomes[1], clock, clock)))}
            [] name = "start_support_session" ->
                 {Settled(CatchAsErrorText(
                    SupportSessionBody(args, outcomes[1], clock, clock)))}
            [] OTHER -> {TextResult(UnknownToolText(name))}

\* the values in the order in which the lookups settled
CollectInSettlingOrder(lookups, i, value) ==
  LET first == CHOOSE j \in DOMAIN lookups :
                 /\ IsPending(lookups[j])
                 /\ \A k \in DOMAIN lookups : IsPending(lookups[k]) => j <= k
  IN [lookups EXCEPT ![first] = value]

\* Promise.all: the value of the i-th promise is the i-th element
Collect(lookups, i, value) == [lookups EXCEPT ![i] = value]

\* the run of a handler: the request, the commands sent (with the outcome
\* once settled), the bookings queried, the values of the lookups, the
\* order in which the lookups settled, and the result once returned
Run(req, sent) ==
  [request |-> req, phase |-> "awaiting", sent |-> sent, bookings |-> <<>>,
   lookups |-> <<>>, order |-> <<>>, result |-> NoResponse]

Returned(run, log, result) ==
  [run EXCEPT !.phase = "responded", !.sent = log, !.result = result]

\* a resolved Put is in the table
StoreAfter(command, outcome) ==
  /\ delayNotificationsTable' =
       IF command.command = "Put" /\ ~outcome.rejected /\
          command.TableName = DELAY_NOTIFICATIONS_TABLE
       THEN PutItem(delayNotificationsTable, command.Item, DelayNotificationKey)
       ELSE delayNotificationsTable
  /\ supportSessionsTable' =
       IF command.command = "Put" /\ ~outcome.rejected /\
          command.TableName = CUSTOMER_SUPPORT_SESSIONS_TABLE
       THEN PutItem(supportSessionsTable, command.Item, SupportSessionKey)
       ELSE supportSessionsTable

\* a request is read and its handler runs up to its first await, or to its
\* return when it awaits nothing
Receive(req) ==
  /\ Len(handlers) < MaxRequests
  /\ Connected(req.server)
  /\ \E plan \in {AwaitedCommands(req.server, req.name, req.arguments, now)} :
       IF plan = <<>>
       THEN \E result \in ReturnedResults(req.server, req.name, req.arguments, <<>>, now) :
              handlers' = Append(handlers, Returned(Run(req, <<>>), <<>>, result))
       ELSE handlers' = Append(handlers, Run(req, <<plan[1]>>))
  /\ UNCHANGED <<process, flightsTable, bookingsTable, passengersTable, request,
                 response, storeLog, server, delayNotificationsTable,
                 supportSessionsTable, now>>

\* the k-th command of run id settles and the run continues to its next
\* await or to its return
Settle(id, k, outcome) ==
  /\ id \in DOMAIN handlers
  /\ handlers[id].phase = "awaiting"
  /\ k \in DOMAIN handlers[id].sent
  /\ ~Has(handlers[id].sent[k], "rejected")
  /\ StoreAfter(handlers[id].sent[k], outcome)
  /\ \E run \in {handlers[id]} :
     \E req \in {run.request} :
     \E log \in {[run.sent EXCEPT ![k] = Sent(@, outcome)]} :
       IF run.sent[k].command = "Get"
       THEN \* one of the lookups started by bookings.map
            \E lookups \in {Collect(run.lookups, k - 1,
                                    PassengerLookup(passengersTable, run.bookings[k - 1],
                                                    outcome))} :
            \E after \in {[run EXCEPT !.sent = log, !.lookups = lookups,
                                      !.order = Append(@, k - 1)]} :
              IF \E i \in DOMAIN lookups : IsPending(lookups[i])
              THEN handlers' = [handlers EXCEPT ![id] = after]
              ELSE \E result \in AffectedPassengersResults(req.arguments, lookups) :
                     handlers' = [handlers EXCEPT ![id] = Returned(after, log, result)]
       ELSE IF req.name = "get_affected_passengers" /\ req.server = FlightOpsServer /\
               ~outcome.rejected
       THEN \* the query resolved: every lookup sends its Get before any settles
            \E bookings \in {QueryBookings(bookingsTable, req.arguments.flight_number)} :
            \E after \in {[run EXCEPT
                             !.sent = log \o [i \in DOMAIN bookings |->
                                                GetCommand(PASSENGERS_TABLE,
                                                           PassengerKey(bookings[i]))],
                             !.bookings = bookings,
                             !.lookups = [i \in DOMAIN bookings |-> Pending]]} :
              IF bookings # <<>>
              THEN handlers' = [handlers EXCEPT ![id] = after]
              ELSE \E result \in AffectedPassengersResults(req.arguments, <<>>) :
                     handlers' = [handlers EXCEPT ![id] = Returned(after, log, result)]
       ELSE \E plan \in {AwaitedCommands(req.server, req.name, req.arguments, now)} :
            \E next \in {AwaitedNext(plan, log, outcome)} :
              IF next = 0
              THEN \E result \in ReturnedResults(req.server, req.name, req.arguments,
                                                 log, now) :
                     handlers' = [handlers EXCEPT ![id] = Returned(run, log, result)]
              ELSE handlers' = [handlers EXCEPT ![id].sent = Append(log, plan[next])]
  /\ UNCHANGED <<process, flightsTable, bookingsTable, passengersTable, request,
                 response, storeLog, server, now>>

InFlightRequests ==
  {[server |-> FlightOpsServer, name |-> n, arguments |-> a] :
     n \in {"check_flight_delays", "test_connection", "cancel_flight"}, a \in {NoFields}}
  \cup {[server |-> FlightOpsServer, name |-> "find_alternative_flights",
         arguments |-> [origin |-> "FRA", destination |-> "JFK"]],
        [server |-> FlightOpsServer, name |-> "get_affected_passengers",
         arguments |-> [flight_number |-> "LH441"]],
        [server |-> CustomerServiceServer, name |-> "generate_proactive_message",
         arguments |-> [passenger_id |-> "P1", delay_info |-> DelayInfo]],
        [server |-> CustomerServiceServer, name |-> "create_rebooking_workflow",
         arguments |-> [passenger_id |-> "P1"]],
        [server |-> CustomerServiceServer, name |-> "escalation_handoff",
         arguments |-> [passenger_id |-> "P1", issue_complexity |-> "vip_handling"]],
        [server |-> CustomerServiceServer, name |-> "create_delay_notification",
         arguments |-> [passenger_id |-> "P1", flight_number |-> "LH1",
                        delay_minutes |-> 45]],
        [server |-> CustomerServiceServer, name |-> "start_support_session",
         arguments |-> [passenger_id |-> "P1", issue_type |-> "rebooking"]],
        [server |-> CustomerServiceServer, name |-> "cancel_flight",
         arguments |-> NoFields]}

SettleOutcomes == {Resolved, ResourceNotFound}

\* two bookings on LH441 whose passengers have records of the same tier
InitInFlight ==
  /\ flightsTable =
       <<[FlightNumber |-> "LH441", Origin |-> "FRA", Destination |-> "JFK",
          Status |-> delayed, DelayMinutes |-> 45]>>
  /\ bookingsTable = <<Booking(1, "LH441"), Booking(2, "LH441")>>
  /\ passengersTable =
       [k \in 1..2 |-> [PassengerId |-> PassengerIds[k], BookingReference |-> BookingRefs[k],
                        FrequentFlyerTier |-> "senator"]]
  /\ request = NoRequest
  /\ response = NoResponse
  /\ storeLog = <<>>
  /\ NoCustomerService

NextInFlight ==
  \/ \E req \in InFlightRequests : Receive(req)
  \/ \E id \in DOMAIN handlers : \E k \in DOMAIN handlers[id].sent :
        \E outcome \in SettleOutcomes : Settle(id, k, outcome)

SpecInFlight == InitInFlight /\ [][NextInFlight]_vars

\* a store call that was sent settles
StoreCallsSettle ==
  WF_vars(\E id \in DOMAIN handlers : \E k \in DOMAIN handlers[id].sent :
             \E outcome \in SettleOutcomes : Settle(id, k, outcome))

SpecInFlightFair == InitInFlight /\ [][NextInFlight]_vars /\ StoreCallsSettle

(***************************************************************************)
(* Reading the runs of the handlers.                                       *)
(***************************************************************************)
InFlight(id) == id \in DOMAIN handlers /\ handlers[id].phase = "awaiting"

Responded(id) == id \in DOMAIN handlers /\ handlers[id].phase = "responded"

\* the commands a run has sent, without their outcomes
CommandsSent(run) ==
  [i \in DOMAIN run.sent |->
     [f \in DOMAIN run.sent[i] \ {"rejected", "name", "message"} |-> run.sent[i][f]]]

\* C22: on each server the handling of a request, its store calls included,
\* is complete and its response emitted before the handling of the next
\* request starts: at most one handler of a server is in flight.
C22_OneRequestAtATime ==
  \A who \in Servers :
    Cardinality({id \in DOMAIN handlers :
                   handlers[id].request.server = who /\ InFlight(id)}) <= 1

\* the runs of get_affected_passengers whose query has resolved
LookupRuns ==
  {id \in DOMAIN handlers :
     /\ handlers[id].request.server = FlightOpsServer
     /\ handlers[id].request.name = "get_affected_passengers"
     /\ Has(handlers[id].sent[1], "rejected")
     /\ ~handlers[id].sent[1].rejected}

\* what each booking's lookup yields, by the position of the booking
LookedUp(run) ==
  [i \in DOMAIN run.bookings |->
     PassengerLookup(passengersTable, run.bookings[i], OutcomeOf(run.sent[i + 1]))]

\* C26: once the query of get_affected_passengers has resolved, the Get of
\* every booking has been sent before any of them settles, and the returned
\* text is the one determined by what each booking's Get yields, whatever
\* the order in which the Gets settled.
C26_ResultIndependentOfSettlingOrder ==
  \A id \in LookupRuns :
    /\ handlers[id].bookings =
         QueryBookings(bookingsTable, handlers[id].request.arguments.flight_number)
    /\ Len(handlers[id].sent) = 1 + Len(handlers[id].bookings)
    /\ \A i \in DOMAIN handlers[id].bookings :
         /\ handlers[id].sent[i + 1].command = "Get"
         /\ handlers[id].sent[i + 1].Key = PassengerKey(handlers[id].bookings[i])
    /\ Responded(id) =>
         handlers[id].result \in
           AffectedPassengersResults(handlers[id].request.arguments,
                                     LookedUp(handlers[id]))

\* C26 witness: the Get of the second booking settled before the Get of the
\* first, and the two passengers, of the same tier, are returned in the
\* order of their bookings
C26_Witness ==
  \E id \in LookupRuns :
    /\ Responded(id)
    /\ handlers[id].order = <<2, 1>>
    /\ handlers[id].result.content[1].text.count = 2
    /\ handlers[id].result.content[1].text.passengers = passengersTable

\* C29: given that the store calls sent settle, every request read is
\* eventually answered (time and again all requests read so far have been
\* answered, and an answered request stays answered); it is answered with one
\* result envelope, after which its run does nothing more, and no run sends a
\* command a second time.
C29_EveryRequestAnsweredOnce ==
  /\ []<>(\A id \in DOMAIN handlers : Responded(id))
  /\ [](\A id \in DOMAIN handlers :
          /\ \A i \in DOMAIN handlers[id].sent : \A j \in DOMAIN handlers[id].sent :
               CommandsSent(handlers[id])[i] = CommandsSent(handlers[id])[j] => i = j
          /\ InFlight(id) => handlers[id].result = NoResponse
          /\ Responded(id) => /\ Has(handlers[id].result, "content")
                              /\ Len(handlers[id].result.content) = 1)
  /\ [][\A id \in DOMAIN handlers : Responded(id) => handlers'[id] = handlers[id]]_vars

\* C29 witness: a test_connection whose five scans all resolved has been
\* answered while the handler of a later request is still in flight
C29_Witness ==
  \E id \in DOMAIN handlers : \E later \in DOMAIN handlers :
    /\ id < later
    /\ Responded(id)
    /\ handlers[id].request.name = "test_connection"
    /\ Len(handlers[id].sent) = Len(TestedTables)
    /\ \A i \in DOMAIN handlers[id].sent : ~handlers[id].sent[i].rejected
    /\ InFlight(later)

====
